---- MODULE Spec2Model ----
(***************************************************************************)
(* EBQControl_Wifi: the JavaScript MQTT layer of the application.          *)
(*                                                                         *)
(*   MqttNativeClient.js   the clientId -> MqttClient routing table, the   *)
(*                         MqttClient class and the default-client API     *)
(*   MqttManager.js        connectDevice / reconnect back-off /            *)
(*                         authenticateForAddDevice                        *)
(*   MqttDeviceGridScreen  the device screen: connection state, keep-alive *)
(*                         timer, channel store, toggle / name / rating    *)
(*                         writes                                          *)
(*                                                                         *)
(* One step of the model is one JavaScript macrotask (a user action, a     *)
(* timer callback, a native event or the settlement of a native promise)   *)
(* together with every microtask it triggers: code after an `await` of an  *)
(* already settled promise runs in the same step, code after an `await` of *)
(* a native promise runs in the step that settles that promise.            *)
(*                                                                         *)
(* Time: every deadline the code computes from Date.now() (a lock expiry,  *)
(* a pending write's expiresAt, a timer's due time) is kept as the number  *)
(* of milliseconds left until it; the passage of time lowers them all.     *)
(***************************************************************************)
EXTENDS Integers, Sequences, FiniteSets, TLC

VARIABLES
  \* ---- MqttNativeClient.js / native module ----
  platform,        \* Platform.OS
  instanceMap,     \* Map clientId -> MqttClient, as its keys in insertion order
  statusCbs,       \* MqttClient._statusCallbacks, per client
  messageCbs,      \* MqttClient._messageCallbacks, per client
  errorCbs,        \* MqttClient._errorCallbacks, per client
  defaultClient,   \* _defaultClient (0 = null)
  nClients,        \* number of MqttClient objects constructed so far
  connP,           \* per client: progress of the promise returned by connect()
  nat,             \* per client: state of its native connection
  discP,           \* clients whose native disconnect() promise is pending
  delivered,       \* observation: the last routed native event and who got it
  opened,          \* observation: the last MqttNative.connect call
  \* ---- MqttManager.js: authenticateForAddDevice ----
  auth,            \* the running authenticateForAddDevice call
  \* ---- MqttManager.js: connectDevice / scheduleReconnect ----
  mgr,             \* module state of MqttManager.js and its running calls
  \* ---- MqttDeviceGridScreen.js ----
  scr              \* refs and React state of the device screen

vars == << platform, instanceMap, statusCbs, messageCbs, errorCbs, defaultClient,
           nClients, connP, nat, discP, delivered, opened, auth, mgr, scr >>

\* ------------------------------------------------------------------ bounds
MaxClients == 3
ClientIds == 1..MaxClients

Null == 0

\* The whole state as one record, so that a handler that calls several
\* functions in a row is the composition of their effects.
Cur ==
  [ platform |-> platform, instanceMap |-> instanceMap, statusCbs |-> statusCbs,
    messageCbs |-> messageCbs, errorCbs |-> errorCbs, defaultClient |-> defaultClient,
    nClients |-> nClients, connP |-> connP, nat |-> nat, discP |-> discP,
    delivered |-> delivered, opened |-> opened, auth |-> auth, mgr |-> mgr,
    scr |-> scr ]

Commit(s) ==
  /\ platform' = s.platform
  /\ instanceMap' = s.instanceMap
  /\ statusCbs' = s.statusCbs
  /\ messageCbs' = s.messageCbs
  /\ errorCbs' = s.errorCbs
  /\ defaultClient' = s.defaultClient
  /\ nClients' = s.nClients
  /\ connP' = s.connP
  /\ nat' = s.nat
  /\ discP' = s.discP
  /\ delivered' = s.delivered
  /\ opened' = s.opened
  /\ auth' = s.auth
  /\ mgr' = s.mgr
  /\ scr' = s.scr

Range(q) == { q[i] : i \in 1..Len(q) }

Min(a, b) == IF a < b THEN a ELSE b
Max(a, b) == IF a > b THEN a ELSE b

RECURSIVE Pow2(_)
Pow2(n) == IF n = 0 THEN 1 ELSE 2 * Pow2(n - 1)

\* Remove every occurrence of x from the sequence q (Map.delete on the key order).
RECURSIVE SeqRemove(_, _)
SeqRemove(q, x) ==
  IF q = << >> THEN << >>
  ELSE IF Head(q) = x THEN SeqRemove(Tail(q), x)
       ELSE << Head(q) >> \o SeqRemove(Tail(q), x)

\* ----------------------------------------------------------------- strings
\* JavaScript strings are sequences of one-character strings.
LowerChars == <<"a","b","c","d","e","f","g","h","i","j","k","l","m","n","o","p","q","r","s","t","u","v","w","x","y","z">>
UpperChars == <<"A","B","C","D","E","F","G","H","I","J","K","L","M","N","O","P","Q","R","S","T","U","V","W","X","Y","Z">>

ToUpperChar(c) ==
  IF \E i \in 1..Len(LowerChars) : LowerChars[i] = c
  THEN UpperChars[CHOOSE i \in 1..Len(LowerChars) : LowerChars[i] = c]
  ELSE c

\* String.prototype.toUpperCase
ToUpperCase(str) == [ i \in 1..Len(str) |-> ToUpperChar(str[i]) ]

\* String.prototype.includes
Includes(str, pat) ==
  \E i \in 1..(Len(str) - Len(pat) + 1) : SubSeq(str, i, i + Len(pat) - 1) = pat


\* ------------------------------------------------ MqttNativeClient.js
\* Callback identities.  "cbA" and "cbB" are arbitrary caller callbacks; "auth",
\* "mgr" and "scr" are the callbacks that authenticateForAddDevice,
\* connectDevice and the device screen's connectNow pass to connectAndSubscribe.
Callbacks == {"cbA", "cbB", "auth", "mgr", "scr"}

NoCb == "none"
NoCallbacks == [onStatus |-> NoCb, onMessage |-> NoCb, onError |-> NoCb]
AllCallbacks(cb) == [onStatus |-> cb, onMessage |-> cb, onError |-> cb]

NoDelivery == [kind |-> "none", tag |-> Null, inst |-> Null,
               status |-> {}, message |-> {}, error |-> {}, flip |-> FALSE]
NoOpen == [client |-> Null, port |-> 0, tls |-> FALSE, flag |-> FALSE, flip |-> FALSE]

\* State of the module right after it is loaded: no client, no native connection.
ClientLayerInit ==
  /\ instanceMap = << >>
  /\ statusCbs = [c \in ClientIds |-> {}]
  /\ messageCbs = [c \in ClientIds |-> {}]
  /\ errorCbs = [c \in ClientIds |-> {}]
  /\ defaultClient = Null
  /\ nClients = 0
  /\ connP = [c \in ClientIds |-> "none"]
  /\ nat = [c \in ClientIds |-> "none"]
  /\ discP = {}
  /\ delivered = NoDelivery
  /\ opened = NoOpen

Registered(s) == Range(s.instanceMap)

\* Mutant of getActiveInstance: the first registered instance instead of the last.
getActiveInstance_First(s) ==
  IF s.instanceMap = << >> THEN Null ELSE s.instanceMap[1]

\* getActiveInstance: the last instance the Map iterates over.
getActiveInstance(s) ==
  IF s.instanceMap = << >> THEN Null ELSE s.instanceMap[Len(s.instanceMap)]

\* The instance a listener picks:
\*   clientId ? instanceMap.get(clientId) : getActiveInstance()
routeEvent(s, tag) ==
  IF tag # Null
  THEN (IF tag \in Registered(s) THEN tag ELSE Null)
  ELSE getActiveInstance(s)

\* new MqttClient(): a fresh clientId, empty callback sets, registered in the map.
\* (clientIds are drawn fresh: rn_<Date.now()>_<random>.)
newMqttClient(s) ==
  LET c == s.nClients + 1 IN
  [s EXCEPT !.nClients = c,
            !.instanceMap = Append(@, c),
            !.statusCbs[c] = {},
            !.messageCbs[c] = {},
            !.errorCbs[c] = {}]

\* addCallbacks / the registration at the top of connect().
addCallbacks(s, c, cbs) ==
  [s EXCEPT !.statusCbs[c] = IF cbs.onStatus # NoCb THEN @ \cup {cbs.onStatus} ELSE @,
            !.messageCbs[c] = IF cbs.onMessage # NoCb THEN @ \cup {cbs.onMessage} ELSE @,
            !.errorCbs[c] = IF cbs.onError # NoCb THEN @ \cup {cbs.onError} ELSE @]

removeCallbacks(s, c, cbs) ==
  [s EXCEPT !.statusCbs[c] = IF cbs.onStatus # NoCb THEN @ \ {cbs.onStatus} ELSE @,
            !.messageCbs[c] = IF cbs.onMessage # NoCb THEN @ \ {cbs.onMessage} ELSE @,
            !.errorCbs[c] = IF cbs.onError # NoCb THEN @ \ {cbs.onError} ELSE @]

\* The native side of disconnect.  iOS: closeClient(clientId) drops the native
\* client at once and rejects a connect promise that is still pending; Android:
\* the single native client is asked to disconnect.  Either way the promise
\* returned to JavaScript is settled by a later step.
nativeDisconnect(s, c) ==
  [s EXCEPT !.nat[c] = IF @ = "none" THEN "none" ELSE "closed",
            !.discP = @ \cup {c}]

\* MqttClient.disconnect()
MqttClient_disconnect(s, c) ==
  nativeDisconnect(
    [s EXCEPT !.instanceMap = SeqRemove(@, c),
              !.statusCbs[c] = {},
              !.messageCbs[c] = {},
              !.errorCbs[c] = {}], c)

\* Mutant of effectiveUseTls: port 1883 is not treated specially.
effectiveUseTls_AnyPort(port, useTls) == useTls = TRUE

\* useTls === true || useTls === 1 || useTls === '1', then
\* effectiveUseTls = p === 1883 ? false : useTlsBool
effectiveUseTls(port, useTls) == IF port = 1883 THEN FALSE ELSE useTls = TRUE

\* MqttClient.connect(): registers the callbacks, validates the port and calls
\* MqttNative.connect.  A port that is not a positive number throws before the
\* native call (connP = "threw").  connP then follows the promise chain:
\* "connect" (native connect pending), "subscribe" (native subscribe pending),
\* "resolved", "rejected".
MqttClient_connect(s, c, port, useTls, hasTopic, cbs) ==
  LET s1 == addCallbacks(s, c, cbs) IN
  IF port <= 0
  THEN [s1 EXCEPT !.connP[c] = "threw"]
  ELSE [s1 EXCEPT !.connP[c] = IF hasTopic THEN "connect" ELSE "connectNoTopic",
                  !.nat[c] = "connecting",
                  !.opened = [client |-> c, port |-> port,
                              tls |-> effectiveUseTls(port, useTls),
                              flag |-> useTls, flip |-> ~s.opened.flip]]

\* disconnectMqtt(): disconnects the default client and clears it.
disconnectMqtt(s) ==
  IF s.defaultClient # Null
  THEN [MqttClient_disconnect(s, s.defaultClient) EXCEPT !.defaultClient = Null]
  ELSE s

\* Mutant of connectAndSubscribe: the previous default client is not disconnected.
connectAndSubscribe_NoClose(s, port, useTls, hasTopic, cbs) ==
  LET s2 == newMqttClient(s)
      c  == s2.nClients
  IN MqttClient_connect([s2 EXCEPT !.defaultClient = c], c, port, useTls, hasTopic, cbs)

\* connectAndSubscribe(params):
\*   _defaultClient?.disconnect(); _defaultClient = new MqttClient();
\*   return _defaultClient.connect(params)
connectAndSubscribe(s, port, useTls, hasTopic, cbs) ==
  LET s1 == IF s.defaultClient # Null
            THEN MqttClient_disconnect(s, s.defaultClient) ELSE s
      s2 == newMqttClient(s1)
      c  == s2.nClients
  IN MqttClient_connect([s2 EXCEPT !.defaultClient = c], c, port, useTls, hasTopic, cbs)

\* The three native listeners.  mqtt_status and mqtt_message reach the status /
\* message callbacks; mqtt_disconnected reaches the status callbacks (with
\* 'DISCONNECTED') and, when it carries an error, the error callbacks.
Deliver(s, kind, tag, hasError) ==
  LET inst == routeEvent(s, tag) IN
  [kind |-> kind, tag |-> tag, inst |-> inst,
   status |-> IF inst # Null /\ kind \in {"mqtt_status", "mqtt_disconnected"}
              THEN s.statusCbs[inst] ELSE {},
   message |-> IF inst # Null /\ kind = "mqtt_message"
               THEN s.messageCbs[inst] ELSE {},
   error |-> IF inst # Null /\ kind = "mqtt_disconnected" /\ hasError
             THEN s.errorCbs[inst] ELSE {},
   flip |-> ~s.delivered.flip]


\* ------------------------------------------------ MqttManager.js: errors
PatReason5 == <<"R","E","A","S","O","N","C","O","D","E","=","5">>
PatNotAuthorized == <<"N","O","T"," ","A","U","T","H","O","R","I","Z","E","D">>
PatSsl == <<"S","S","L">>
PatUnrecognized == <<"U","N","R","E","C","O","G","N","I","Z","E","D"," ","P","A","C","K","E","T">>
PatSslHandshake == <<"S","S","L","H","A","N","D","S","H","A","K","E">>
PatHandshake == <<"H","A","N","D","S","H","A","K","E">>
PatEof == <<"E","O","F","E","X","C","E","P","T","I","O","N">>
PatClosed == <<"C","O","N","N","E","C","T","I","O","N"," ","C","L","O","S","E","D">>

MsgAuthRequired == <<"C","o","n","n","e","c","t","i","o","n"," ","f","a","i","l","e","d",":"," ","u","s","e","r","n","a","m","e","/","p","a","s","s","w","o","r","d"," ","r","e","q","u","i","r","e","d">>
MsgProtocolMismatch == <<"P","r","o","t","o","c","o","l"," ","m","i","s","m","a","t","c","h",":"," ","p","o","r","t"," ","m","a","y"," ","r","e","q","u","i","r","e"," ","T","L","S"," ","o","r"," ","W","e","b","S","o","c","k","e","t",".">>
MsgTlsFailed == <<"T","L","S"," ","h","a","n","d","s","h","a","k","e"," ","f","a","i","l","e","d",":"," ","c","e","r","t","/","C","A","/","h","o","s","t"," ","m","i","s","m","a","t","c","h",".">>
MsgConnFailed == <<"C","o","n","n","e","c","t","i","o","n"," ","f","a","i","l","e","d">>
MsgAuthTimeout == <<"A","u","t","h"," ","t","i","m","e","o","u","t",":"," ","c","h","e","c","k"," ","n","e","t","w","o","r","k","/","h","o","s","t","/","p","o","r","t","/","u","s","e","r","n","a","m","e","/","p","a","s","s","w","o","r","d","/","A","C","L">>
MsgInvalidPort == <<"I","n","v","a","l","i","d"," ","p","o","r","t">>
MsgHostRequired == <<"H","o","s","t"," ","i","s"," ","r","e","q","u","i","r","e","d">>
MsgTopicRequired == <<"c","p","I","d","/","d","e","v","i","c","e","I","d"," ","i","s"," ","r","e","q","u","i","r","e","d">>

\* Messages the native module rejects a connect or a subscribe with.
RawUnrecognized == <<"U","n","r","e","c","o","g","n","i","z","e","d"," ","p","a","c","k","e","t">>
RawSsl == <<"S","S","L","H","a","n","d","s","h","a","k","e","E","x","c","e","p","t","i","o","n">>
RawTlsAlert == <<"h","a","n","d","s","h","a","k","e"," ","a","l","e","r","t">>
RawEof == <<"E","O","F","E","x","c","e","p","t","i","o","n">>
RawClosed == <<"C","o","n","n","e","c","t","i","o","n"," ","c","l","o","s","e","d">>
RawAuth == <<"N","o","t"," ","a","u","t","h","o","r","i","z","e","d">>
RawRefused == <<"C","o","n","n","e","c","t","i","o","n"," ","r","e","f","u","s","e","d">>

NativeErrors == {RawUnrecognized, RawSsl, RawTlsAlert, RawEof, RawClosed, RawAuth, RawRefused}

NoErr == [raw |-> << >>, message |-> << >>]

\* mapMqttError(err).userMsg
mapMqttError(raw) ==
  LET up == ToUpperCase(raw) IN
  IF Includes(up, PatReason5) \/ Includes(up, PatNotAuthorized) THEN MsgAuthRequired
  ELSE IF Includes(up, PatUnrecognized) THEN MsgProtocolMismatch
  ELSE IF Includes(up, PatSsl) \/ Includes(up, PatHandshake) THEN MsgTlsFailed
  ELSE MsgConnFailed

\* The error MqttClient.connect throws from its catch: new Error(userMsg), e.raw = raw.
connectError(raw) == [raw |-> raw, message |-> mapMqttError(raw)]

\* Mutant of shouldFlipTls: the patterns are compared without upper-casing.
shouldFlipTls_CaseSensitive(err) ==
  LET raw == IF err.raw # << >> THEN err.raw ELSE err.message IN
  \/ Includes(raw, PatUnrecognized)
  \/ Includes(raw, PatSslHandshake)
  \/ Includes(raw, PatHandshake)
  \/ Includes(raw, PatEof)
  \/ Includes(raw, PatClosed)

\* shouldFlipTls(err): String(err?.raw || err?.message || '').toUpperCase()
\* includes one of the protocol-mismatch patterns.
shouldFlipTls(err) ==
  LET raw == ToUpperCase(IF err.raw # << >> THEN err.raw ELSE err.message) IN
  \/ Includes(raw, PatUnrecognized)
  \/ Includes(raw, PatSslHandshake)
  \/ Includes(raw, PatHandshake)
  \/ Includes(raw, PatEof)
  \/ Includes(raw, PatClosed)

\* detectTlsByPort(port)
detectTlsByPort(port) == port = 8883 \/ port = 8812

\* Number(port) || 1883
portOrDefault(port) == IF port = 0 THEN 1883 ELSE port

\* ------------------------------- MqttManager.js: authenticateForAddDevice
\* No device saved by onAdd of AddMqttDevice yet.
NoSaved == [has |-> FALSE, port |-> 0, useTls |-> FALSE]

\* busy and saved belong to the AddMqttDevice screen: its busy state and the
\* device it handed to addMqttDevice.
AuthIdle ==
  [pc |-> "idle", p |-> 0, input |-> "unset", useTls |-> FALSE, flags |-> << >>,
   client |-> Null, busy |-> FALSE, saved |-> NoSaved,
   firstErr |-> NoErr, err |-> NoErr, result |-> "none", returned |-> FALSE]

\* The finally block and what follows it: disconnectMqtt(), then the return
\* value or the pending exception.
authSettle(s) ==
  [s EXCEPT !.auth.pc = "done",
            !.auth.client = Null,
            !.auth.result = IF s.auth.err = NoErr THEN "returned" ELSE "thrown",
            !.auth.returned = IF s.auth.err = NoErr THEN s.auth.useTls ELSE FALSE]

authFinally(s) ==
  LET old == s.defaultClient
      s1 == disconnectMqtt(s)
  IN IF old # Null
     THEN [s1 EXCEPT !.auth.pc = "finalDisc", !.auth.client = old]
     ELSE authSettle(s1)

RECURSIVE authAttemptFailed(_, _)

\* The part of tryOnce after `await disconnectMqtt()`: connectAndSubscribe
\* under withTimeout.  A synchronous throw of connect() fails the attempt at once.
authTryConnect(s, tlsFlag) ==
  LET s1 == connectAndSubscribe(s, s.auth.p, tlsFlag, TRUE, AllCallbacks("auth"))
      c == s1.defaultClient
  IN IF s1.connP[c] = "threw"
     THEN authAttemptFailed([s1 EXCEPT !.auth.client = Null],
                            [raw |-> << >>, message |-> MsgInvalidPort])
     ELSE [s1 EXCEPT !.auth.pc = "conn", !.auth.client = c]

\* tryOnce(tlsFlag): await disconnectMqtt().catch(() => {}), then connect.
tryOnce(s, tlsFlag) ==
  LET old == s.defaultClient
      s1 == [disconnectMqtt(s) EXCEPT !.auth.flags = Append(@, tlsFlag)]
  IN IF old # Null
     THEN [s1 EXCEPT !.auth.pc = "disc", !.auth.client = old]
     ELSE authTryConnect(s1, tlsFlag)

\* The catch (e1) block, and the failure of the second attempt.
authAttemptFailed(s, e) ==
  IF Len(s.auth.flags) = 1
  THEN LET s1 == [s EXCEPT !.auth.firstErr = e] IN
       IF s.auth.p = 1883 THEN authFinally([s1 EXCEPT !.auth.err = e])
       ELSE IF shouldFlipTls(e)
            THEN tryOnce(s1, ~s.auth.useTls)
            ELSE authFinally([s1 EXCEPT !.auth.err = e])
  ELSE authFinally([s EXCEPT !.auth.err = e])

\* Mutant of authAttemptOk: the flipped mode is not remembered.
authAttemptOk_KeepFirst(s) == authFinally(s)

\* An attempt succeeded: after the second one, useTls = flipped.
authAttemptOk(s) ==
  IF Len(s.auth.flags) = 2
  THEN authFinally([s EXCEPT !.auth.useTls = s.auth.flags[2]])
  ELSE authFinally(s)

\* authenticateForAddDevice({host, port, cpId, deviceId, useTls, ...}) up to
\* its first await.  useTlsInput is "yes", "no" or "unset".
authenticateForAddDevice(s, hostOk, topicOk, port, useTlsInput) ==
  LET p == portOrDefault(port)
      useTls == IF useTlsInput = "unset" THEN detectTlsByPort(p)
                ELSE useTlsInput = "yes"
      s1 == [s EXCEPT !.auth = [AuthIdle EXCEPT !.p = p, !.input = useTlsInput, !.useTls = useTls]]
  IN IF ~hostOk
     THEN [s1 EXCEPT !.auth.pc = "done", !.auth.result = "thrown",
                     !.auth.err = [raw |-> << >>, message |-> MsgHostRequired]]
     ELSE IF ~topicOk
     THEN [s1 EXCEPT !.auth.pc = "done", !.auth.result = "thrown",
                     !.auth.err = [raw |-> << >>, message |-> MsgTopicRequired]]
     ELSE tryOnce(s1, useTls)


\* ------------------------------------------------ AddMqttDevice.js: onAdd
\* validate(): 'Port invalid' unless 0 < parsedPort <= 65535 (the other fields
\* are taken as filled in).
validPort(port) == port > 0 /\ port <= 65535

\* onAdd() up to `await authenticateForAddDevice(...)`: no useTls is passed.
onAdd(s, port) ==
  IF s.auth.busy \/ ~validPort(port) THEN s
  ELSE [authenticateForAddDevice(s, TRUE, TRUE, port, "unset") EXCEPT !.auth.busy = TRUE]

\* onAdd() after the await: the device is built with useTls: auth.useTls and
\* given to addMqttDevice; a thrown error only sets the error text.
onAddResume(s) ==
  IF s.auth.result = "returned"
  THEN [s EXCEPT !.auth.busy = FALSE,
                 !.auth.saved = [has |-> TRUE, port |-> s.auth.p,
                                 useTls |-> s.auth.returned]]
  ELSE [s EXCEPT !.auth.busy = FALSE]

\* ------------------------- MqttManager.js: connectDevice / scheduleReconnect
\* The devices connectDevice is called with: 1 has a TLS port and a topic,
\* 2 has no port (1883 is used) and no topic.  Devices 3 to 6 are saved
\* devices with other ports; 3, 4 and 5 carry a stored boolean useTls.
MgrDevices == {1, 2}
DevicePort(d) ==
  CASE d = 1 -> 8883
    [] d = 2 -> portOrDefault(0)
    [] d = 3 -> 8883
    [] d = 4 -> 1884
    [] d = 5 -> 1883
    [] OTHER -> 8812
DeviceHasTopic(d) == d # 2
\* device.useTls: "yes" / "no" for a stored boolean, "unset" otherwise.
DevicePref(d) ==
  CASE d = 3 -> "no"
    [] d = 4 -> "no"
    [] d = 5 -> "yes"
    [] OTHER -> "unset"
\* typeof device.useTls === 'boolean' ? device.useTls : detectTlsByPort(port)
DeviceUseTls(d) ==
  IF DevicePref(d) = "unset" THEN detectTlsByPort(DevicePort(d))
  ELSE DevicePref(d) = "yes"

\* Module state after load.  frames are the connectDevice / disconnectDevice
\* calls suspended at an await; fails counts the consecutive failed attempts
\* (an observation, not a variable of the code); timers is the number of
\* setTimeout timers of scheduleReconnect that are neither fired nor cleared.
MgrIdle ==
  [currentDevice |-> Null, retryCount |-> 0, reconnectTimer |-> 0,
   connected |-> FALSE, connecting |-> FALSE, status |-> "IDLE", error |-> FALSE,
   frames |-> {}, fails |-> 0, timers |-> 0]

\* clearTimer(): if (reconnectTimer) clearTimeout(reconnectTimer); reconnectTimer = null
clearTimer(s) ==
  [s EXCEPT !.mgr.timers = IF s.mgr.reconnectTimer # 0 THEN @ - 1 ELSE @,
            !.mgr.reconnectTimer = 0]

\* Mutant of scheduleReconnect: the pending timer is not cleared first.
scheduleReconnect_NoClear(s) ==
  IF s.mgr.currentDevice = Null THEN s
  ELSE [s EXCEPT !.mgr.timers = @ + 1,
                 !.mgr.reconnectTimer = Min(30000, 1000 * Pow2(s.mgr.retryCount))]

\* scheduleReconnect(): the handle of the pending timer is represented by its
\* delay in ms.
scheduleReconnect(s) ==
  IF s.mgr.currentDevice = Null THEN s
  ELSE [clearTimer(s) EXCEPT
          !.mgr.timers = @ + 1,
          !.mgr.reconnectTimer = Min(30000, 1000 * Pow2(s.mgr.retryCount))]

\* Mutant of mgrOnStatus: a DISCONNECTED status schedules no reconnect.
mgrOnStatus_NoReconnect(s, text) ==
  LET ok == text \in {"CONNECTED", "SUBSCRIBED"}
      disc == text = "DISCONNECTED"
  IN [s EXCEPT !.mgr.status = text, !.mgr.connected = ok,
               !.mgr.connecting = ~ok /\ ~disc]

\* The onStatus callback connectDevice passes to connectAndSubscribe.
mgrOnStatus(s, text) ==
  LET ok == text \in {"CONNECTED", "SUBSCRIBED"}
      disc == text = "DISCONNECTED"
      s1 == [s EXCEPT !.mgr.status = text, !.mgr.connected = ok,
                      !.mgr.connecting = ~ok /\ ~disc]
  IN IF disc THEN scheduleReconnect(s1) ELSE s1

\* The onError callback connectDevice passes to connectAndSubscribe.
mgrOnError(s) == scheduleReconnect([s EXCEPT !.mgr.error = TRUE])

\* The catch block of connectDevice.
mgrCatch(s, f) ==
  scheduleReconnect(
    [s EXCEPT !.mgr.error = IF f.silent THEN @ ELSE TRUE,
              !.mgr.connected = FALSE, !.mgr.connecting = FALSE,
              !.mgr.status = "DISCONNECTED",
              !.mgr.fails = f.n + 1])

\* connectDevice after `await connectAndSubscribe(...)` resolved.
mgrResolved(s, f) ==
  [s EXCEPT !.mgr.connected = TRUE, !.mgr.connecting = FALSE,
            !.mgr.status = "CONNECTED", !.mgr.fails = 0]

\* connectDevice from `await disconnectMqtt()` to `await connectAndSubscribe`.
mgrConnectStart(s, f) ==
  LET s1 == connectAndSubscribe(s, DevicePort(f.dev), DeviceUseTls(f.dev),
                                DeviceHasTopic(f.dev), AllCallbacks("mgr"))
      c == s1.defaultClient
  IN IF s1.connP[c] = "threw" THEN mgrCatch(s1, f)
     ELSE [s1 EXCEPT !.mgr.frames = @ \cup {[f EXCEPT !.pc = "conn", !.client = c]}]

\* connectDevice(device, {silent}).  n is the number of consecutive failures
\* before this attempt: 0 for a caller's call, mgr.fails for the timer's.
connectDevice(s, dev, silent, n) ==
  LET s1 == clearTimer([s EXCEPT !.mgr.currentDevice = dev, !.mgr.retryCount = 0,
                                 !.mgr.connecting = TRUE, !.mgr.connected = FALSE,
                                 !.mgr.error = FALSE, !.mgr.status = "CONNECTING",
                                 !.mgr.fails = n])
      old == s1.defaultClient
      s2 == disconnectMqtt(s1)
      f == [pc |-> "disc", client |-> old, dev |-> dev, silent |-> silent, n |-> n]
  IN IF old # Null THEN [s2 EXCEPT !.mgr.frames = @ \cup {f}]
     ELSE mgrConnectStart(s2, f)

\* The callback of the reconnect timer.  The timer that fired is gone: its
\* handle is dead (clearTimeout on it does nothing), written here as no handle.
reconnectTimerFired(s) ==
  connectDevice([s EXCEPT !.mgr.retryCount = @ + 1,
                          !.mgr.timers = @ - 1, !.mgr.reconnectTimer = 0],
                s.mgr.currentDevice, TRUE, s.mgr.fails)

\* The finally block of disconnectDevice.
mgrDisconnectFinally(s) ==
  [s EXCEPT !.mgr.connected = FALSE, !.mgr.connecting = FALSE,
            !.mgr.status = "IDLE", !.mgr.error = FALSE]

\* disconnectDevice()
disconnectDevice(s) ==
  LET s1 == [clearTimer(s) EXCEPT !.mgr.currentDevice = Null, !.mgr.retryCount = 0]
      old == s1.defaultClient
      s2 == disconnectMqtt(s1)
      f == [pc |-> "ddisc", client |-> old, dev |-> Null, silent |-> FALSE, n |-> 0]
  IN IF old # Null THEN [s2 EXCEPT !.mgr.frames = @ \cup {f}]
     ELSE mgrDisconnectFinally(s2)

\* Every frame waiting for the promise of client c goes on with step(_, f).
RECURSIVE mgrResume(_, _, _)
mgrResume(s, c, kind) ==
  LET waiting == { f \in s.mgr.frames :
                     f.client = c /\ (IF kind = "disc" THEN f.pc \in {"disc", "ddisc"}
                                      ELSE f.pc = "conn") }
  IN IF waiting = {} THEN s
     ELSE LET f == CHOOSE g \in waiting : TRUE
              s1 == [s EXCEPT !.mgr.frames = @ \ {f}]
              s2 == IF f.pc = "disc" THEN mgrConnectStart(s1, f)
                    ELSE IF f.pc = "ddisc" THEN mgrDisconnectFinally(s1)
                    ELSE IF kind = "ok" THEN mgrResolved(s1, f)
                    ELSE mgrCatch(s1, f)
          IN mgrResume(s2, c, kind)

\* The status / error callbacks of an instance run the manager's handlers when
\* they are registered there.
mgrDeliverStatus(s, inst, text) ==
  IF inst # Null /\ "mgr" \in s.statusCbs[inst] THEN mgrOnStatus(s, text) ELSE s

mgrDeliverError(s, inst) ==
  IF inst # Null /\ "mgr" \in s.errorCbs[inst] THEN mgrOnError(s) ELSE s


\* ------------------------------ MqttDeviceGridScreen.js: the channel store
\* One single-phase channel (1..120) and one three-phase channel (201..224).
Channels == {17, 201}
is3P(id) == id >= 201

\* The ids the store of the model has a place for: the two channels and one
\* id outside 1..120 and 201..224.  A place that holds defaultTag(id) stands
\* for an id the store has no entry for (tags starts as {} and every reader
\* uses prev[id] || default).
OtherId == 500
StoreIds == Channels \cup {OtherId}

NoTimer == -1

\* Names are strings (sequences of characters); NoName marks an absent field.
NoName == <<"<", "n", "o", "n", "e", ">">>
DefaultName(id) ==
  IF id = 17 THEN <<"D","e","v","i","c","e"," ","1","7">>
  ELSE IF id = 201 THEN <<"D","e","v","i","c","e"," ","2","0","1">>
  ELSE <<"D","e","v","i","c","e"," ","5","0","0">>

\* default1P(id) / default3P(id): the fields of a channel the model follows.
\* current is <<current>> or <<current, current1, current2, current3>>.
default1P(id) ==
  [status |-> "UNKNOWN", seen |-> FALSE, current |-> <<"-">>, tagName |-> DefaultName(id)]
default3P(id) ==
  [status |-> "UNKNOWN", seen |-> FALSE, current |-> <<"-", "-", "-", "-">>,
   tagName |-> DefaultName(id)]
defaultTag(id) == IF is3P(id) THEN default3P(id) ELSE default1P(id)

\* n.toFixed(2) for the currents of the model, in tenths of an ampere.
toFixed2(n) ==
  CASE n = 0 -> "0.00"
    [] n = 1 -> "0.10"
    [] n = 50 -> "5.00"
    [] n = -1 -> "-0.10"
    [] n = -2 -> "-0.20"
    [] n = -20 -> "-2.00"
    [] OTHER -> "n.nn"

\* Mutant of formatCurrentA: the OFF marker is not converted.
formatCurrentA_Raw(n) == toFixed2(n)

\* Currents are in tenths of an ampere.  formatCurrentA(v): the small negative
\* OFF marker (-0.1 .. 0) shows as 0.00, the rest with two decimals.
formatCurrentA(n) ==
  IF n < 0 /\ n >= -1 THEN "0.00"
  ELSE toFixed2(n)

\* A partial of the patch queue: cur is << >>, <<__cur1p>> or the __cur3p
\* triple; status "none" and tagName NoName are absent fields; has says whether
\* the queue holds an entry for the channel at all.
NoPatch == [has |-> FALSE, cur |-> << >>, status |-> "none", tagName |-> NoName,
            seen |-> FALSE]

\* Mutant of mergePartial: the readings of a window are collected, not replaced.
mergePartial_Collect(old, partial) ==
  [has |-> TRUE,
   cur |-> old.cur \o partial.cur,
   status |-> IF partial.status # "none" THEN partial.status ELSE old.status,
   tagName |-> IF partial.tagName # NoName THEN partial.tagName ELSE old.tagName,
   seen |-> partial.seen \/ old.seen]

\* Mutant of mergePartial: { ...partial, ...store[id] }, the first write wins.
mergePartial_FirstWins(old, partial) ==
  [has |-> TRUE,
   cur |-> IF old.cur # << >> THEN old.cur ELSE partial.cur,
   status |-> IF old.status # "none" THEN old.status ELSE partial.status,
   tagName |-> IF old.tagName # NoName THEN old.tagName ELSE partial.tagName,
   seen |-> partial.seen \/ old.seen]

\* { ...store[id], ...partial }
mergePartial(old, partial) ==
  [has |-> TRUE,
   cur |-> IF partial.cur # << >> THEN partial.cur ELSE old.cur,
   status |-> IF partial.status # "none" THEN partial.status ELSE old.status,
   tagName |-> IF partial.tagName # NoName THEN partial.tagName ELSE old.tagName,
   seen |-> partial.seen \/ old.seen]

\* Mutant of applyPartial: the toggle lock is not consulted.
applyPartial_IgnoreLock(old, partial, locked) ==
  LET c == partial.cur
      statusFromCur == IF \E i \in 1..Len(c) : c[i] < 0 THEN "OFF" ELSE "ON"
      s1 == IF Len(c) = 1
            THEN [old EXCEPT !.current = <<formatCurrentA(c[1])>>, !.seen = TRUE,
                             !.status = statusFromCur]
            ELSE IF Len(c) = 3
            THEN [old EXCEPT !.current = <<formatCurrentA(c[1]), formatCurrentA(c[1]),
                                           formatCurrentA(c[2]), formatCurrentA(c[3])>>,
                             !.seen = TRUE, !.status = statusFromCur]
            ELSE old
  IN [s1 EXCEPT !.status = IF partial.status # "none" THEN partial.status ELSE @,
                !.tagName = IF partial.tagName # NoName THEN partial.tagName ELSE @,
                !.seen = IF partial.seen THEN TRUE ELSE @]

\* The body of the flush loop for one channel: the current (1P or 3P) sets the
\* reading, and the status unless the channel's toggle lock is running; then
\* the remaining fields of the partial are copied.
applyPartial(old, partial, locked) ==
  LET c == partial.cur
      statusFromCur == IF \E i \in 1..Len(c) : c[i] < 0 THEN "OFF" ELSE "ON"
      s1 == IF Len(c) = 1
            THEN [old EXCEPT !.current = <<formatCurrentA(c[1])>>, !.seen = TRUE,
                             !.status = IF locked THEN @ ELSE statusFromCur]
            ELSE IF Len(c) = 3
            THEN [old EXCEPT !.current = <<formatCurrentA(c[1]), formatCurrentA(c[1]),
                                           formatCurrentA(c[2]), formatCurrentA(c[3])>>,
                             !.seen = TRUE,
                             !.status = IF locked THEN @ ELSE statusFromCur]
            ELSE old
  IN [s1 EXCEPT !.status = IF partial.status # "none" THEN partial.status ELSE @,
                !.tagName = IF partial.tagName # NoName THEN partial.tagName ELSE @,
                !.seen = IF partial.seen THEN TRUE ELSE @]

\* The callback of the patch timer: the batch is taken, the queue emptied and
\* every entry applied to tags.  (isLocked: Date.now() < lockExp.)
patchTimerFired(s) ==
  [s EXCEPT !.scr.patchTimer = NoTimer,
            !.scr.pendingPatch = [id \in StoreIds |-> NoPatch],
            !.scr.tags = [id \in StoreIds |->
                            IF s.scr.pendingPatch[id].has
                            THEN applyPartial(s.scr.tags[id], s.scr.pendingPatch[id],
                                              s.scr.toggleLock[id] > 0)
                            ELSE s.scr.tags[id]]]

\* enqueueTagPatch(patch): patch maps some channels to partials.  The timer is
\* started unless one is pending: max(baseDelay, suspendLeft).
enqueueTagPatch(s, patch) ==
  LET s1 == [s EXCEPT !.scr.pendingPatch =
                         [id \in StoreIds |->
                            IF id \in DOMAIN patch
                            THEN mergePartial(@[id], patch[id]) ELSE @[id]]]
      baseDelay == IF s.scr.activeTab = "grid" THEN 120 ELSE 150
  IN IF s.scr.patchTimer # NoTimer THEN s1
     ELSE [s1 EXCEPT !.scr.patchTimer = Max(baseDelay, s.scr.suspendUi)]

\* applyTagPatchImmediate(id, partial)
applyTagPatchImmediate(s, id, partial) ==
  [s EXCEPT !.scr.tags[id] =
              [@ EXCEPT !.status = IF partial.status # "none" THEN partial.status ELSE @,
                        !.tagName = IF partial.tagName # NoName THEN partial.tagName ELSE @,
                        !.seen = IF partial.seen THEN TRUE ELSE @]]

\* clearTagsToUnknown()
clearTagsToUnknown(s) ==
  [s EXCEPT !.scr.tags =
     [id \in StoreIds |->
        [@[id] EXCEPT !.status = "UNKNOWN", !.seen = FALSE,
                      !.current = defaultTag(id).current]]]

\* switchTab(key)
switchTab(s, key) ==
  [s EXCEPT !.scr.suspendUi = 200, !.scr.patchTimer = NoTimer, !.scr.activeTab = key]


\* --------------------------- MqttDeviceGridScreen.js: state of the screen
\* The port of the device the screen was opened for.
ScrPort == 8883

NoPending == [has |-> FALSE, value |-> NoName, left |-> 0]
\* No entry in pendingRatingRef; an entry holds value [cur, sens].
NoRating == [has |-> FALSE, value |-> << >>, left |-> 0]
NoOverride == [status |-> "none", left |-> 0]

\* A timer of safeSetTimeout, an async call suspended at a native publish, and
\* a toggle that failed: records with the same fields, unused ones at filler
\* values.
Job(kind, step, ch, act, before, left) ==
  [kind |-> kind, step |-> step, ch |-> ch, act |-> act, before |-> before, left |-> left,
   val |-> << >>]

\* The screen right after its first focus: not connected, the focus effect's
\* connectNow timer (300 ms) pending.
\*   conn / rendered / ref   connectionStatus: the state, the value the last
\*                           render's closures hold, connectionStatusRef
\*   frames                  connectNow / disconnectAndStop calls at an await
\*   pubs                    async calls waiting for a native publish, in the
\*                           order of the native calls
\*   toggleLock, nameLock, override.left, pendingName.left,
\*   pendingRating.left, suspendUi:
\*                           milliseconds left until the stored timestamp
\*   pubOutside, reverted, signal, sinceWrite: observations; fastOnce counts,
\*                           per client, the sends of sendFastIntervalOnce;
\*                           nTouches and nMessages count the user's touches on
\*                           channels and the inbound messages
ScrIdle ==
  [port |-> ScrPort, useTls |-> "unset",
   cacheObj |-> [ch |-> 0, val |-> << >>], cacheLoad |-> "pending",
   conn |-> "disconnected", rendered |-> "disconnected", ref |-> "disconnected",
   didRequestCfg |-> FALSE, didSendFastInterval |-> FALSE,
   fastTimer |-> NoTimer,
   frames |-> {}, pubs |-> << >>,
   timeouts |-> {Job("connect", 0, 0, "none", "none", 300)},
   activeTab |-> "grid",
   tags |-> [id \in StoreIds |-> defaultTag(id)],
   pendingPatch |-> [id \in StoreIds |-> NoPatch],
   patchTimer |-> NoTimer, suspendUi |-> 0,
   toggleLock |-> [id \in StoreIds |-> 0],
   override |-> [id \in StoreIds |-> NoOverride],
   nameLock |-> [id \in StoreIds |-> 0],
   pendingName |-> [id \in StoreIds |-> NoPending],
   pendingRating |-> [id \in StoreIds |-> NoRating],
   pubOutside |-> FALSE, fastOnce |-> [c \in ClientIds |-> 0],
   reverted |-> Job("none", 0, 0, "none", "none", 0),
   signal |-> Job("none", 0, 0, "none", "none", 0),
   sinceWrite |-> [id \in StoreIds |-> NoTimer],
   nTouches |-> 0, nMessages |-> 0]

\* toast(msg): the last signal raised is kept.
toast(s, kind, ch) ==
  [s EXCEPT !.scr.signal = Job(kind, 0, ch, "none", "none", 0)]

\* ------------------------------------ MqttDeviceGridScreen.js: publishing
\* publishControl, publishCfg and publishWrite return without publishing unless
\* connectionStatusRef.current is CONNECTED; publishToBothTopics has no guard.
RefGuarded(kind) ==
  kind \in {"control", "fastOnce", "fastTick", "nameBank", "setName", "setRating"}
LastStep(kind) ==
  IF kind = "nameMap" THEN 4
  ELSE IF kind \in {"rating", "setName", "setRating"} THEN 2 ELSE 1

NameBank(ch) == IF ch >= 1 /\ ch <= 80 THEN "Name1" ELSE "Name2"

\* The qos each publisher passes to publishMqtt: publishWrite 0, the others 1.
publishQos(kind) == IF kind \in {"setName", "setRating"} THEN 0 ELSE 1

\* publishSetName and publishSetRating publish payloadObjA, whose command is an
\* object, and then payloadObjB, whose command is an array of one object.
writeSchema(c) == IF c.step = 1 THEN "object" ELSE "array"

\* publishMqtt with a default client: MqttNative.publish is called and its
\* promise is pending.  The native module rejects at once when its client is
\* not connected (fate "fail").
handOver(s, c) ==
  LET fate == IF s.nat[s.defaultClient] = "up" THEN "open" ELSE "fail"
      out == /\ s.scr.conn # "connected"
             /\ s.scr.rendered # "connected"
             /\ s.scr.ref # "connected"
  IN [s EXCEPT !.scr.pubs = Append(@, [job |-> c, fate |-> fate, qos |-> publishQos(c.kind)]),
               !.scr.pubOutside = @ \/ out,
               !.scr.fastOnce[s.defaultClient] = IF c.kind = "fastOnce" THEN @ + 1 ELSE @]

\* The .catch of handleToggle's publishControl; other calls have no handler.
chainFail(s, c) ==
  IF c.kind = "control"
  THEN LET s1 == toast(s, "error", c.ch)
           s2 == [s1 EXCEPT !.scr.toggleLock[c.ch] = 0,
                            !.scr.reverted = [c EXCEPT !.act = IF c.act = "ON" THEN "OFF" ELSE "ON"]]
       IN enqueueTagPatch(s2, c.ch :> [NoPatch EXCEPT
                                         !.status = IF c.act = "ON" THEN "OFF" ELSE "ON",
                                         !.seen = TRUE])
  ELSE s

\* What follows the last publish of a call: publishSetName and publishSetRating
\* start their read-back timer (2500 ms) and their timeout timer (8200 ms).
chainDone(s, c) ==
  IF c.kind = "setName"
  THEN [toast(s, "setName", c.ch) EXCEPT
          !.scr.timeouts = @ \cup {Job("nameReadback", 0, c.ch, "none", "none", 2500),
                                   Job("nameTimeout", 0, c.ch, "none", "none", 8200)}]
  ELSE IF c.kind = "setRating"
  THEN [toast(s, "setRating", c.ch) EXCEPT
          !.scr.timeouts = @ \cup {Job("ratingReadback", 0, c.ch, "none", "none", 2500),
                                   Job("ratingTimeout", 0, c.ch, "none", "none", 8200)}]
  ELSE s

\* An async publishing call from its step c.step on, up to its next await of a
\* native promise.
RECURSIVE runChain(_, _)
runChain(s, c) ==
  IF c.step > LastStep(c.kind) THEN chainDone(s, c)
  ELSE IF RefGuarded(c.kind) /\ s.scr.ref # "connected"
  THEN runChain(s, [c EXCEPT !.step = @ + 1])
  ELSE IF s.defaultClient = Null THEN chainFail(s, c)
  ELSE handOver(s, c)

\* The native publish promise of the oldest suspended call settles.
publishSettled(s, ok) ==
  LET p == Head(s.scr.pubs)
      s1 == [s EXCEPT !.scr.pubs = Tail(@)]
  IN IF ok THEN runChain(s1, [p.job EXCEPT !.step = @ + 1]) ELSE chainFail(s1, p.job)

startCall(s, kind, ch) == runChain(s, Job(kind, 1, ch, "none", "none", 0))

requestNameBank(s, ch) == startCall(s, "nameBank", ch)
requestNameMap(s) == startCall(s, "nameMap", 0)
requestRatingMap(s) == startCall(s, "rating", 0)

\* sendFastIntervalOnce()
sendFastIntervalOnce(s) ==
  IF s.scr.didSendFastInterval THEN s
  ELSE startCall([s EXCEPT !.scr.didSendFastInterval = TRUE], "fastOnce", 0)

\* sendFastIntervalTick()
sendFastIntervalTick(s) ==
  IF s.scr.ref # "connected" THEN s ELSE startCall(s, "fastTick", 0)

stopFastIntervalTimer(s) == [s EXCEPT !.scr.fastTimer = NoTimer]

\* startFastIntervalTimer(): a 58 s timer unless one is running.
startFastIntervalTimer(s) ==
  IF s.scr.fastTimer # NoTimer THEN s ELSE [s EXCEPT !.scr.fastTimer = 58000]

\* The callback of the fast-interval timer.
fastTimerFired(s) ==
  IF s.scr.ref # "connected" THEN [s EXCEPT !.scr.fastTimer = NoTimer]
  ELSE [sendFastIntervalTick(s) EXCEPT !.scr.fastTimer = 58000]

clearAllTimeouts(s) == [s EXCEPT !.scr.timeouts = {}]

\* ------------------------- MqttDeviceGridScreen.js: connect and disconnect
\* Mutant of the SUBSCRIBED branch: the didRequestCfg guard is missing.
scrOnSubscribed_NoGuard(s) ==
  LET s1 == [s EXCEPT !.scr.ref = "connected", !.scr.conn = "connected",
                      !.scr.didRequestCfg = TRUE, !.scr.didSendFastInterval = FALSE]
  IN requestRatingMap(requestNameMap(
       startFastIntervalTimer(sendFastIntervalOnce(stopFastIntervalTimer(s1)))))

\* onStatus, SUBSCRIBED branch.
scrOnSubscribed(s) ==
  LET s1 == [s EXCEPT !.scr.ref = "connected", !.scr.conn = "connected"] IN
  IF s.scr.didRequestCfg THEN s1
  ELSE requestRatingMap(requestNameMap(
         startFastIntervalTimer(sendFastIntervalOnce(stopFastIntervalTimer(
           [s1 EXCEPT !.scr.didRequestCfg = TRUE])))))

\* The onStatus callback connectNow passes to connectAndSubscribe.
scrOnStatus(s, text) ==
  IF text = "CONNECTED" THEN [s EXCEPT !.scr.conn = "connecting"]
  ELSE IF text = "SUBSCRIBED" THEN scrOnSubscribed(s)
  ELSE IF text = "DISCONNECTED" THEN [s EXCEPT !.scr.conn = "disconnected"]
  ELSE s

\* The onError callback connectNow passes to connectAndSubscribe.
scrOnError(s) == toast([s EXCEPT !.scr.conn = "disconnected"], "error", 0)

\* The catch block of connectNow.
scrConnectCatch(s) == toast([s EXCEPT !.scr.conn = "disconnected"], "error", 0)

\* connectNow from `await disconnectMqtt()` to `await connectAndSubscribe`.
scrConnectStart(s) ==
  LET s1 == connectAndSubscribe(s, s.scr.port, TRUE, TRUE, AllCallbacks("scr"))
      c == s1.defaultClient
  IN IF s1.connP[c] = "threw" THEN scrConnectCatch(s1)
     ELSE [s1 EXCEPT !.scr.frames = @ \cup {[pc |-> "conn", client |-> c, clear |-> FALSE]}]

\* connectNow(); closure is the connectionStatus of the render that made the
\* callback (isBusy and isConnected derive from it).
connectNow(s, closure) ==
  IF closure \in {"connecting", "disconnecting", "connected"} THEN s
  ELSE LET s1 == clearTagsToUnknown(
                   [s EXCEPT !.scr.conn = "connecting", !.scr.didRequestCfg = FALSE,
                             !.scr.didSendFastInterval = FALSE])
           old == s1.defaultClient
           s2 == disconnectMqtt(s1)
       IN IF old # Null
          THEN [s2 EXCEPT !.scr.frames = @ \cup {[pc |-> "disc", client |-> old, clear |-> FALSE]}]
          ELSE scrConnectStart(s2)

\* The finally block of disconnectAndStop, and disconnectNow's clearTagsToUnknown.
scrDisconnectFinally(s, f) ==
  LET s1 == [s EXCEPT !.scr.conn = "disconnected", !.scr.didRequestCfg = FALSE,
                      !.scr.didSendFastInterval = FALSE]
  IN IF f.clear THEN clearTagsToUnknown(s1) ELSE s1

\* disconnectAndStop(reason); clear: the caller is disconnectNow.
disconnectAndStop(s, clear) ==
  LET s1 == [stopFastIntervalTimer(clearAllTimeouts(s)) EXCEPT !.scr.conn = "disconnecting"]
      old == s1.defaultClient
      s2 == disconnectMqtt(s1)
      f == [pc |-> "ddisc", client |-> old, clear |-> clear]
  IN IF old # Null THEN [s2 EXCEPT !.scr.frames = @ \cup {f}]
     ELSE scrDisconnectFinally(s2, f)

\* disconnectNow()
disconnectNow(s, closure) ==
  IF closure \in {"connecting", "disconnecting"} THEN s
  ELSE disconnectAndStop(s, TRUE)

\* The cleanup of the second focus effect (the screen loses focus).
blurCleanup(s) == stopFastIntervalTimer(clearAllTimeouts(s))

\* A render and the effect that copies connectionStatus into its ref.
render(s) == [s EXCEPT !.scr.rendered = s.scr.conn, !.scr.ref = s.scr.conn]

\* Every frame waiting for the promise of client c goes on.
RECURSIVE scrResume(_, _, _)
scrResume(s, c, kind) ==
  LET waiting == { f \in s.scr.frames :
                     f.client = c /\ (IF kind = "disc" THEN f.pc \in {"disc", "ddisc"}
                                      ELSE f.pc = "conn") }
  IN IF waiting = {} THEN s
     ELSE LET f == CHOOSE g \in waiting : TRUE
              s1 == [s EXCEPT !.scr.frames = @ \ {f}]
              s2 == IF f.pc = "disc" THEN scrConnectStart(s1)
                    ELSE IF f.pc = "ddisc" THEN scrDisconnectFinally(s1, f)
                    ELSE IF kind = "ok" THEN s1
                    ELSE scrConnectCatch(s1)
          IN scrResume(s2, c, kind)

scrDeliverStatus(s, inst, text) ==
  IF inst # Null /\ "scr" \in s.statusCbs[inst] THEN scrOnStatus(s, text) ELSE s

scrDeliverError(s, inst) ==
  IF inst # Null /\ "scr" \in s.errorCbs[inst] THEN scrOnError(s) ELSE s


\* ------------------------------- MqttDeviceGridScreen.js: power toggles
\* handleToggle(id, action); before is the channel's status at the call.
handleToggle(s, id, act) ==
  IF s.scr.rendered # "connected" THEN s
  ELSE LET lockDuration == IF s.platform = "android" THEN 5000 ELSE 3000
           s1 == [s EXCEPT !.scr.suspendUi = 250, !.scr.patchTimer = NoTimer,
                           !.scr.toggleLock[id] = lockDuration]
           s2 == applyTagPatchImmediate(s1, id, [NoPatch EXCEPT !.status = act, !.seen = TRUE])
       IN [s2 EXCEPT !.scr.timeouts =
                       @ \cup {Job("togglePub", 0, id, act, s.scr.tags[id].status, 0)}]

\* GridItem: the status the tile shows is the local override while it is
\* younger than 1500 ms, else the store's status.
effectiveStatus(s, id) ==
  IF s.scr.override[id].status # "none" /\ s.scr.override[id].left > 0
  THEN s.scr.override[id].status ELSE s.scr.tags[id].status

gridCanTap(s, id) ==
  /\ s.scr.rendered = "connected"
  /\ s.scr.tags[id].seen \/ (s.scr.override[id].status # "none" /\ s.scr.override[id].left > 0)
  /\ effectiveStatus(s, id) # "UNKNOWN"

\* The power button of a grid tile: onLocalToggle(id, next), onToggle(id, next).
gridTap(s, id) ==
  LET next == IF effectiveStatus(s, id) = "ON" THEN "OFF" ELSE "ON" IN
  handleToggle([s EXCEPT !.scr.override[id] = [status |-> next, left |-> 1500]], id, next)

\* ThreePhaseItem: enabled when seen and not UNKNOWN, asks for the opposite of
\* the store's status.
threeCanTap(s, id) == s.scr.tags[id].seen /\ s.scr.tags[id].status # "UNKNOWN"
threeTap(s, id) == handleToggle(s, id, IF s.scr.tags[id].status = "ON" THEN "OFF" ELSE "ON")

\* ----------------------------------- MqttDeviceGridScreen.js: name writes
Whitespace == {" ", "\t", "\n"}
ControlChars == {"\t", "\n"}
ReplacementChar == "U+FFFD"
DigitChars == {"0", "1", "2", "3", "4", "5", "6", "7", "8", "9"}

RECURSIVE trimStart(_)
trimStart(str) ==
  IF str # << >> /\ Head(str) \in Whitespace THEN trimStart(Tail(str)) ELSE str
RECURSIVE trimEnd(_)
trimEnd(str) ==
  IF str # << >> /\ str[Len(str)] \in Whitespace
  THEN trimEnd(SubSeq(str, 1, Len(str) - 1)) ELSE str
trim(str) == trimEnd(trimStart(str))

\* sanitizeName(input)
sanitizeName(input) ==
  trim(SelectSeq(trim(input), LAMBDA ch : ch # ReplacementChar /\ ch \notin ControlChars))

\* Mutant of isDefaultName: the pattern is matched case-sensitively.
isDefaultName_CaseSensitive(str) ==
  \E i \in 7..Len(str), j \in 8..Len(str) :
    /\ i < j
    /\ SubSeq(str, 1, 6) = <<"D", "e", "v", "i", "c", "e">>
    /\ \A k \in 7..(j - 1) : str[k] \in Whitespace
    /\ \A k \in j..Len(str) : str[k] \in DigitChars

\* /^Device\s+\d+$/i
isDefaultName(str) ==
  \E i \in 7..Len(str), j \in 8..Len(str) :
    /\ i < j
    /\ ToUpperCase(SubSeq(str, 1, 6)) = <<"D", "E", "V", "I", "C", "E">>
    /\ \A k \in 7..(j - 1) : str[k] \in Whitespace
    /\ \A k \in j..Len(str) : str[k] \in DigitChars

\* publishSetName(ch, newName) up to its first await.
publishSetName(s, ch, newName) ==
  LET nameStr == trim(newName) IN
  IF s.scr.rendered # "connected" THEN s
  ELSE IF nameStr = << >> THEN toast(s, "invalid", ch)
  ELSE LET s1 == [s EXCEPT !.scr.pendingName[ch] = [has |-> TRUE, value |-> nameStr, left |-> 8000],
                           !.scr.nameLock[ch] = 8000,
                           !.scr.sinceWrite[ch] = 8200]
           s2 == enqueueTagPatch(s1, ch :> [NoPatch EXCEPT !.tagName = nameStr, !.seen = TRUE])
       IN runChain(s2, [Job("setName", 1, ch, "none", "none", 0) EXCEPT !.val = nameStr])

\* The timeout fallback of publishSetName.
nameTimeoutFired(s, ch) ==
  IF ~s.scr.pendingName[ch].has THEN s
  ELSE requestNameBank(
         toast([s EXCEPT !.scr.pendingName[ch] = NoPending, !.scr.nameLock[ch] = 0],
               "nameTimeout", ch), ch)

\* publishSetRating(ch, currentA, sensLevel) up to its first await; the rating
\* dialog hands over numbers.
publishSetRating(s, ch, cur, sens) ==
  IF s.scr.rendered # "connected" THEN s
  ELSE runChain([s EXCEPT !.scr.pendingRating[ch] =
                             [has |-> TRUE, value |-> <<cur, sens>>, left |-> 8000],
                          !.scr.sinceWrite[ch] = 8200],
                [Job("setRating", 1, ch, "none", "none", 0) EXCEPT !.val = <<cur, sens>>])

\* The timeout fallback of publishSetRating.
ratingTimeoutFired(s, ch) ==
  IF ~s.scr.pendingRating[ch].has THEN s
  ELSE requestRatingMap(
         toast([s EXCEPT !.scr.pendingRating[ch] = NoRating], "ratingTimeout", ch))

\* The callback of a safeSetTimeout timer.  The focus effect's timer calls the
\* connectNow of the first render, made while Disconnected.
timeoutFired(s, t) ==
  LET s1 == [s EXCEPT !.scr.timeouts = @ \ {t}] IN
  IF t.kind = "connect" THEN connectNow(s1, "disconnected")
  ELSE IF t.kind = "togglePub" THEN runChain(s1, [t EXCEPT !.kind = "control", !.step = 1])
  ELSE IF t.kind = "nameReadback" THEN requestNameBank(s1, t.ch)
  ELSE IF t.kind = "ratingReadback" THEN requestRatingMap(s1)
  ELSE IF t.kind = "ratingTimeout" THEN ratingTimeoutFired(s1, t.ch)
  ELSE nameTimeoutFired(s1, t.ch)

\* ------------------------------ MqttDeviceGridScreen.js: inbound messages
\* A message has up to four parts, each about one channel: a current map
\* entry, a name map entry, the first command (an ON / OFF echo, a Set Name
\* echo or a Set Rating echo) and a rating map entry.  ch = 0: the part is
\* absent.
NoPart == [ch |-> 0, val |-> << >>]
NoCmd == [kind |-> "none", ch |-> 0, val |-> << >>]
Message(cur, name, cmd) == [cur |-> cur, name |-> name, cmd |-> cmd, rating |-> NoPart]

\* The JSON values of a current-map entry: a number, an array of numbers, or
\* an object with the per-leg keys current1..3 (a, b, c, L1, L2, L3).
Num(n) == [form |-> "num", val |-> <<n>>]
Arr(seq) == [form |-> "arr", val |-> seq]
Legs(seq) == [form |-> "obj", val |-> seq]

\* normalizeNumber(v): << >> stands for NaN.  A number is itself, an array
\* gives Number(v[0]), an object Number(v) = NaN.
normalizeNumber(v) ==
  IF v.form = "num" THEN v.val
  ELSE IF v.form = "arr" /\ Len(v.val) >= 1 THEN <<v.val[1]>>
  ELSE << >>

\* parse3PhaseValue(v): << >> stands for null.  A finite number gives
\* [v, v, v], an array of three or more its first three elements, an object
\* its three legs; a shorter array has none of the leg keys.
parse3PhaseValue(v) ==
  IF v.form = "num" THEN <<v.val[1], v.val[1], v.val[1]>>
  ELSE IF v.form = "arr" /\ Len(v.val) >= 3 THEN <<v.val[1], v.val[2], v.val[3]>>
  ELSE IF v.form = "obj" /\ Len(v.val) >= 3 THEN <<v.val[1], v.val[2], v.val[3]>>
  ELSE << >>

\* put(id, partial) on the patch of the message.
put(patch, id, partial) ==
  IF id \in DOMAIN patch THEN [patch EXCEPT ![id] = mergePartial(@, partial)]
  ELSE patch @@ (id :> mergePartial(NoPatch, partial))

\* Mutant of onNameEntry: the name lock is consulted before the pending write.
onNameEntry_LockFirst(sp, id, v) ==
  LET s == sp.s
      gotName == sanitizeName(v)
      pending == s.scr.pendingName[id]
      done == [sp EXCEPT !.patch = put(@, id, [NoPatch EXCEPT !.tagName = gotName, !.seen = TRUE])]
  IN IF gotName = << >> \/ isDefaultName(gotName) THEN sp
     ELSE IF s.scr.nameLock[id] > 0 THEN sp
     ELSE IF pending.has /\ pending.left >= 0
     THEN IF gotName = trim(pending.value)
          THEN [done EXCEPT !.s = toast([s EXCEPT !.scr.pendingName[id] = NoPending,
                                                  !.scr.nameLock[id] = 0],
                                        "nameSaved", id)]
          ELSE sp
     ELSE done

\* Part 2 of onMessage, for one entry of the name map: the state and the patch.
onNameEntry(sp, id, v) ==
  LET s == sp.s
      gotName == sanitizeName(v)
      pending == s.scr.pendingName[id]
      done == [sp EXCEPT !.patch = put(@, id, [NoPatch EXCEPT !.tagName = gotName, !.seen = TRUE])]
  IN IF gotName = << >> \/ isDefaultName(gotName) THEN sp
     ELSE IF pending.has /\ pending.left >= 0
     THEN IF gotName = trim(pending.value)
          THEN [done EXCEPT !.s = toast([s EXCEPT !.scr.pendingName[id] = NoPending,
                                                  !.scr.nameLock[id] = 0],
                                        "nameSaved", id)]
          ELSE sp
     ELSE IF s.scr.nameLock[id] > 0 THEN sp
     ELSE done

\* Part 3 of onMessage: the ON / OFF echo and the Set Name echo.
onCommand(sp, cmd) ==
  IF cmd.kind \in {"ON", "OFF"}
  THEN [sp EXCEPT !.patch = put(@, cmd.ch, [NoPatch EXCEPT !.status = cmd.kind, !.seen = TRUE])]
  ELSE IF cmd.kind = "SetName" /\ sanitizeName(cmd.val) # << >>
  THEN [sp EXCEPT !.patch = put(@, cmd.ch, [NoPatch EXCEPT !.tagName = sanitizeName(cmd.val),
                                                          !.seen = TRUE]),
                  !.s = [@ EXCEPT !.scr.nameLock[cmd.ch] = 8000]]
  ELSE IF cmd.kind = "SetRating" /\ Len(cmd.val) >= 2
  THEN [sp EXCEPT !.patch = put(@, cmd.ch, [NoPatch EXCEPT !.seen = TRUE])]
  ELSE sp

\* Part 4 of onMessage, for one entry [cur, sens] of the rating map.  (The
\* fields currentRating and sensitivity of the channel are not followed.)
onRatingEntry(sp, id, v) ==
  IF Len(v) < 2 THEN sp
  ELSE LET p == sp.s.scr.pendingRating[id]
           sp1 == [sp EXCEPT !.patch = put(@, id, [NoPatch EXCEPT !.seen = TRUE])]
       IN IF p.has /\ p.left >= 0 /\ v[1] = p.value[1] /\ v[2] = p.value[2]
          THEN [sp1 EXCEPT !.s = toast([@ EXCEPT !.scr.pendingRating[id] = NoRating],
                                       "ratingSaved", id)]
          ELSE sp1

\* Part 1 of onMessage, for one entry of the current map.
onCurrentEntry(sp, id, v) ==
  IF id >= 1 /\ id <= 120
  THEN LET curNum == normalizeNumber(v) IN
       IF curNum = << >> THEN sp
       ELSE [sp EXCEPT !.patch = put(@, id, [NoPatch EXCEPT !.cur = curNum])]
  ELSE IF id >= 201 /\ id <= 224
  THEN LET triple == parse3PhaseValue(v) IN
       IF triple = << >> THEN sp
       ELSE [sp EXCEPT !.patch = put(@, id, [NoPatch EXCEPT !.cur = triple])]
  ELSE sp

\* mergeNamesIntoTags(prev, obj) for the one entry of obj (ch = 0: an empty
\* object).
mergeNamesIntoTags(tags, obj) ==
  LET gotName == sanitizeName(obj.val) IN
  IF obj.ch = 0 THEN tags
  ELSE IF gotName = << >> THEN tags
  ELSE IF isDefaultName(gotName) THEN tags
  ELSE IF tags[obj.ch].tagName = gotName THEN tags
  ELSE [tags EXCEPT ![obj.ch] = [@ EXCEPT !.tagName = gotName, !.seen = TRUE]]

\* loadNameCache after `await AsyncStorage.getItem(key)`: cacheObj is the
\* stored object that was read when the screen got the focus.
nameCacheLoaded(s) ==
  [s EXCEPT !.scr.cacheLoad = "done",
            !.scr.tags = mergeNamesIntoTags(@, s.scr.cacheObj)]

\* onMessage up to `if (Object.keys(patch).length > 0)`: the state and the
\* patch the four parts have put together.
decodeMessage(s, m) ==
  LET p0 == [s |-> s, patch |-> << >>]
      p1 == IF m.cur.ch # 0 THEN onCurrentEntry(p0, m.cur.ch, m.cur.val) ELSE p0
      p2 == IF m.name.ch # 0 THEN onNameEntry(p1, m.name.ch, m.name.val) ELSE p1
      p3 == onCommand(p2, m.cmd)
  IN IF m.rating.ch # 0 THEN onRatingEntry(p3, m.rating.ch, m.rating.val) ELSE p3

\* The onMessage callback connectNow passes to connectAndSubscribe.
scrOnMessage(s, m) ==
  LET p4 == decodeMessage(s, m)
  IN IF DOMAIN p4.patch = {} THEN p4.s ELSE enqueueTagPatch(p4.s, p4.patch)

scrDeliverMessage(s, inst, m) ==
  IF inst # Null /\ "scr" \in s.messageCbs[inst] THEN scrOnMessage(s, m) ELSE s

\* ------------------------------------------------------------------- time
\* The milliseconds to the next instant at which something falls due.
TimeLefts(s) ==
  { t.left : t \in s.scr.timeouts } \cup {s.scr.patchTimer, s.scr.fastTimer, s.scr.suspendUi}
  \cup { s.scr.toggleLock[id] : id \in StoreIds }
  \cup { s.scr.nameLock[id] : id \in StoreIds }
  \cup { s.scr.override[id].left : id \in StoreIds }
  \cup { s.scr.sinceWrite[id] : id \in StoreIds }
  \cup { IF s.scr.pendingName[id].has /\ s.scr.pendingName[id].left >= 0
         THEN s.scr.pendingName[id].left + 1 ELSE 0 : id \in StoreIds }
  \cup { IF s.scr.pendingRating[id].has /\ s.scr.pendingRating[id].left >= 0
         THEN s.scr.pendingRating[id].left + 1 ELSE 0 : id \in StoreIds }

TimerDue(s) ==
  \/ \E t \in s.scr.timeouts : t.left = 0
  \/ s.scr.patchTimer = 0
  \/ s.scr.fastTimer = 0

\* d milliseconds pass.
elapse(s, d) ==
  LET timer(x) == IF x = NoTimer THEN NoTimer ELSE x - d
      window(x) == Max(0, x - d)
  IN [s EXCEPT
        !.scr.timeouts = { [t EXCEPT !.left = @ - d] : t \in @ },
        !.scr.patchTimer = timer(@),
        !.scr.fastTimer = timer(@),
        !.scr.suspendUi = window(@),
        !.scr.toggleLock = [id \in StoreIds |-> window(@[id])],
        !.scr.nameLock = [id \in StoreIds |-> window(@[id])],
        !.scr.override = [id \in StoreIds |-> [@[id] EXCEPT !.left = window(@)]],
        !.scr.sinceWrite = [id \in StoreIds |-> IF @[id] = NoTimer THEN NoTimer ELSE window(@[id])],
        !.scr.pendingName = [id \in StoreIds |->
                               IF @[id].has
                               THEN [@[id] EXCEPT !.left = IF @ - d < 0 THEN -1 ELSE @ - d]
                               ELSE @[id]],
        !.scr.pendingRating = [id \in StoreIds |->
                                 IF @[id].has
                                 THEN [@[id] EXCEPT !.left = IF @ - d < 0 THEN -1 ELSE @ - d]
                                 ELSE @[id]]]


\* ------------------------------------------------ native promise chain
PendingConnect == {"connect", "connectNoTopic"}

\* The .then of MqttNative.connect: this.connected = true and, with a topic,
\* MqttNative.subscribe.
connectThen(s, c) ==
  [s EXCEPT !.connP[c] = IF @ = "connect" THEN "subscribe" ELSE "resolved",
            !.nat[c] = IF @ = "connecting" THEN "up" ELSE @]

connectResolved(s, c) == [s EXCEPT !.connP[c] = "resolved"]
connectRejected(s, c) == [s EXCEPT !.connP[c] = "rejected"]


\* ============================ specification SpecReg: the routing table ===
\* Sessions constructed in SpecReg; one more id stays unregistered for ever.
RegMaxClients == 2
RegEventTags == {Null} \cup (1..(RegMaxClients + 1))

RegCallbackChoices ==
  { AllCallbacks("cbA"), [onStatus |-> "cbB", onMessage |-> NoCb, onError |-> NoCb] }

RegInit ==
  /\ ClientLayerInit
  /\ platform \in {"ios", "android"}
  /\ auth = AuthIdle /\ mgr = MgrIdle /\ scr = ScrIdle

\* new MqttClient()
RegConstruct ==
  /\ nClients < RegMaxClients
  /\ Commit(newMqttClient(Cur))

\* client.addCallbacks(cbs)
RegAddCallbacks ==
  \E c \in 1..nClients, cbs \in RegCallbackChoices :
    Commit(addCallbacks(Cur, c, cbs))

\* client.removeCallbacks(cbs)
RegRemoveCallbacks ==
  \E c \in 1..nClients, cbs \in RegCallbackChoices :
    Commit(removeCallbacks(Cur, c, cbs))

\* client.disconnect()
RegDisconnect ==
  \E c \in 1..nClients : Commit(MqttClient_disconnect(Cur, c))

\* The native module emits an event, tagged with a clientId or not.
RegEvent ==
  \E kind \in {"mqtt_status", "mqtt_disconnected", "mqtt_message"},
     tag \in RegEventTags, hasError \in BOOLEAN :
    /\ kind # "mqtt_disconnected" => ~hasError
    /\ Commit([Cur EXCEPT !.delivered = Deliver(Cur, kind, tag, hasError)])

RegNext ==
  \/ RegConstruct
  \/ RegAddCallbacks
  \/ RegRemoveCallbacks
  \/ RegDisconnect
  \/ RegEvent

SpecReg == RegInit /\ [][RegNext]_vars

\* The session registered most recently among those still registered: clientIds
\* are handed out in construction order.
C10_MostRecent ==
  IF instanceMap = << >> THEN Null
  ELSE CHOOSE c \in Range(instanceMap) : \A d \in Range(instanceMap) : d <= c

C10_Target(tag) ==
  IF tag = Null THEN C10_MostRecent
  ELSE IF tag \in Range(instanceMap) THEN tag ELSE Null

\* C10: every native event tagged with a clientId reaches exactly the callbacks
\* of the session registered under that id, and nobody when the id is not
\* registered; an event without clientId reaches the callbacks of the session
\* that was registered most recently.
C10_RegistryRouting ==
  [][ delivered' # delivered =>
        LET d == delivered'
            t == C10_Target(d.tag)
        IN /\ d.inst = t
           /\ t = Null => d.status = {} /\ d.message = {} /\ d.error = {}
           /\ t # Null =>
                /\ d.status = IF d.kind \in {"mqtt_status", "mqtt_disconnected"}
                              THEN statusCbs[t] ELSE {}
                /\ d.message = IF d.kind = "mqtt_message" THEN messageCbs[t] ELSE {}
                /\ d.error \subseteq errorCbs[t]
                /\ d.kind # "mqtt_disconnected" => d.error = {} ]_vars

\* Two sessions are registered, each with callbacks, and an event without
\* clientId has just been delivered to the later one.
C10_Witness ==
  /\ instanceMap = <<1, 2>>
  /\ statusCbs[1] # {} /\ statusCbs[2] # {}
  /\ delivered.kind = "mqtt_status" /\ delivered.tag = Null
  /\ delivered.inst = 2 /\ delivered.status = statusCbs[2]

\* ============== specification SpecAuth: authenticateForAddDevice ========
AuthPorts == {0, 1883, 8883, 8812, 1884, -1}

AuthInit ==
  /\ ClientLayerInit
  /\ platform \in {"ios", "android"}
  /\ auth = AuthIdle /\ mgr = MgrIdle /\ scr = ScrIdle

\* A caller (AddMqttDevice) calls authenticateForAddDevice.
AuthCall ==
  /\ auth.pc = "idle"
  /\ \E hostOk \in BOOLEAN, topicOk \in BOOLEAN, port \in AuthPorts,
        useTlsInput \in {"yes", "no", "unset"} :
       Commit(authenticateForAddDevice(Cur, hostOk, topicOk, port, useTlsInput))

\* The promise of MqttNative.disconnect settles; a tryOnce or the finally
\* block waiting for it goes on.
AuthNativeDisconnected ==
  \E c \in discP :
    LET s1 == [Cur EXCEPT !.discP = @ \ {c}] IN
    Commit(IF auth.pc = "disc" /\ auth.client = c
           THEN authTryConnect(s1, auth.flags[Len(auth.flags)])
           ELSE IF auth.pc = "finalDisc" /\ auth.client = c
           THEN authSettle(s1)
           ELSE s1)

\* MqttNative.connect resolves: the client subscribes.
AuthNativeConnected ==
  \E c \in ClientIds :
    /\ connP[c] \in PendingConnect /\ nat[c] = "connecting"
    /\ Commit(connectThen(Cur, c))

\* MqttNative.subscribe resolves, and with it the promise of connect().
AuthNativeSubscribed ==
  \E c \in ClientIds :
    /\ connP[c] = "subscribe" /\ nat[c] = "up"
    /\ LET s1 == connectResolved(Cur, c) IN
       Commit(IF auth.pc = "conn" /\ auth.client = c THEN authAttemptOk(s1) ELSE s1)

\* MqttNative.connect or MqttNative.subscribe rejects with a native message.
AuthNativeRejected ==
  \E c \in ClientIds, raw \in NativeErrors :
    /\ connP[c] \in PendingConnect \cup {"subscribe"}
    /\ LET s1 == connectRejected(Cur, c) IN
       Commit(IF auth.pc = "conn" /\ auth.client = c
              THEN authAttemptFailed(s1, connectError(raw)) ELSE s1)

\* withTimeout: the timer wins the race against connectAndSubscribe.
AuthTimeout ==
  /\ auth.pc = "conn"
  /\ Commit(authAttemptFailed(Cur, [raw |-> << >>, message |-> MsgAuthTimeout]))

AuthNext ==
  \/ AuthCall
  \/ AuthNativeDisconnected
  \/ AuthNativeConnected
  \/ AuthNativeSubscribed
  \/ AuthNativeRejected
  \/ AuthTimeout

SpecAuth == AuthInit /\ [][AuthNext]_vars

\* The native messages that carry one of the mismatch patterns (UNRECOGNIZED
\* PACKET, SSLHANDSHAKE / HANDSHAKE, EOFEXCEPTION, CONNECTION CLOSED).
C2_MismatchRaws == {RawUnrecognized, RawSsl, RawTlsAlert, RawEof, RawClosed}

C2_FirstMismatch == auth.firstErr.raw \in C2_MismatchRaws

\* C2: a first attempt failing with a mismatch-pattern error on a port other
\* than 1883 is followed by exactly one further attempt with the opposite
\* security flag; on port 1883 there is no second attempt and the original
\* error reaches the caller; no call makes more than two attempts.
C2_TlsAutoFlip ==
  /\ Len(auth.flags) <= 2
  /\ Len(auth.flags) = 2 =>
       /\ auth.p # 1883 /\ C2_FirstMismatch
       /\ auth.flags[2] = ~auth.flags[1]
  /\ (auth.pc = "done" /\ C2_FirstMismatch /\ auth.p # 1883) => Len(auth.flags) = 2
  /\ (auth.pc = "done" /\ auth.firstErr # NoErr /\ auth.p = 1883) =>
       /\ Len(auth.flags) = 1
       /\ auth.result = "thrown" /\ auth.err = auth.firstErr

\* A call on a port other than 1883 whose first attempt failed with a mismatch
\* error has finished after its second attempt.
C2_Witness ==
  /\ auth.pc = "done" /\ auth.p # 1883 /\ C2_FirstMismatch
  /\ Len(auth.flags) = 2 /\ auth.result = "returned"


\* ================= specification SpecMgr: connectDevice and its back-off ===
MgrInit ==
  /\ ClientLayerInit
  /\ platform \in {"ios", "android"}
  /\ auth = AuthIdle /\ mgr = MgrIdle /\ scr = ScrIdle

\* Clients are created by every attempt: the model stops creating them at
\* MaxClients.
MgrMayCreate ==
  nClients + Cardinality({ f \in mgr.frames : f.pc = "disc" }) < MaxClients

\* The tag the platform's native module puts on the events of client c.
EventTag(c) == IF platform = "ios" THEN c ELSE Null

\* A screen calls connectDevice(device).
MgrConnectDevice ==
  /\ MgrMayCreate
  /\ \E dev \in MgrDevices : Commit(connectDevice(Cur, dev, FALSE, 0))

\* A screen calls disconnectDevice().
MgrDisconnectDevice ==
  /\ mgr.currentDevice # Null \/ defaultClient # Null
  /\ Commit(disconnectDevice(Cur))

\* The reconnect timer fires.
MgrTimerFire ==
  /\ mgr.reconnectTimer # 0
  /\ MgrMayCreate
  /\ Commit(reconnectTimerFired(Cur))

\* MqttNative.disconnect settles.  Android's success path first emits an
\* untagged DISCONNECTED status.
MgrNativeDisconnected ==
  \E c \in discP, emitted \in BOOLEAN :
    /\ emitted => platform = "android"
    /\ LET s1 == [Cur EXCEPT !.discP = @ \ {c}]
           s2 == IF emitted
                 THEN mgrDeliverStatus(s1, routeEvent(s1, Null), "DISCONNECTED")
                 ELSE s1
       IN Commit(mgrResume(s2, c, "disc"))

\* MqttNative.connect resolves.
MgrNativeConnected ==
  \E c \in ClientIds :
    /\ connP[c] \in PendingConnect /\ nat[c] = "connecting"
    /\ LET s1 == connectThen(Cur, c) IN
       Commit(IF s1.connP[c] = "resolved" THEN mgrResume(s1, c, "ok") ELSE s1)

\* MqttNative.subscribe resolves.
MgrNativeSubscribed ==
  \E c \in ClientIds :
    /\ connP[c] = "subscribe" /\ nat[c] = "up"
    /\ Commit(mgrResume(connectResolved(Cur, c), c, "ok"))

\* MqttNative.connect / subscribe rejects: the .catch of MqttClient.connect
\* runs the client's error and status callbacks, then the awaiting frame's catch.
MgrNativeRejected ==
  \E c \in ClientIds :
    /\ connP[c] \in PendingConnect \cup {"subscribe"}
    /\ LET s1 == connectRejected(Cur, c)
           s2 == mgrDeliverStatus(mgrDeliverError(s1, c), c, "DISCONNECTED")
       IN Commit(mgrResume(s2, c, "fail"))

\* The native module emits a status event for a live native client.
MgrStatusEvent ==
  \E c \in ClientIds, text \in {"CONNECTING", "CONNECTED", "SUBSCRIBED", "DISCONNECTED"} :
    /\ nat[c] \in {"connecting", "up"}
    /\ text \in {"CONNECTED", "SUBSCRIBED"} => nat[c] = "up"
    /\ Commit(mgrDeliverStatus(Cur, routeEvent(Cur, EventTag(c)), text))

\* The native module reports a lost connection (mqtt_disconnected).
MgrDisconnectedEvent ==
  \E c \in ClientIds, hasError \in BOOLEAN :
    /\ nat[c] = "up"
    /\ LET inst == routeEvent(Cur, EventTag(c))
           s1 == mgrDeliverStatus(Cur, inst, "DISCONNECTED")
       IN Commit(IF hasError THEN mgrDeliverError(s1, inst) ELSE s1)

MgrNext ==
  \/ MgrConnectDevice
  \/ MgrDisconnectDevice
  \/ MgrTimerFire
  \/ MgrNativeDisconnected
  \/ MgrNativeConnected
  \/ MgrNativeSubscribed
  \/ MgrNativeRejected
  \/ MgrStatusEvent
  \/ MgrDisconnectedEvent

SpecMgr == MgrInit /\ [][MgrNext]_vars

\* C1: the reconnect timer scheduled after the N-th consecutive failed attempt
\* (N = 1, 2, ...) has the delay min(30 s, 1 s * 2^(N-1)), i.e. 1 s, 2 s, 4 s,
\* ..., 30 s, and a timer scheduled after a successful connect has 1 s.
C1_BackoffSequence ==
  mgr.reconnectTimer # 0 =>
    mgr.reconnectTimer =
      IF mgr.fails = 0 THEN 1000 ELSE Min(30000, 1000 * Pow2(mgr.fails - 1))

\* ============== specification SpecConn: the screen's connection life cycle ===
ScrInit ==
  /\ ClientLayerInit
  /\ platform \in {"ios", "android"}
  /\ auth = AuthIdle /\ mgr = MgrIdle /\ scr = ScrIdle

\* Native publish calls waiting for their answer: the model stops at MaxPubs.
MaxPubs == 4
ScrCommit(s) == Len(s.scr.pubs) <= MaxPubs /\ Commit(s)

\* Every connectNow creates a client: the model stops at ScrMaxClients.
ScrMaxClients == 2
ScrMayCreate ==
  nClients + Cardinality({ f \in scr.frames : f.pc = "disc" }) < ScrMaxClients

\* MqttNative.publish answers within the native call on both platforms: the
\* answer is back before a timer advances or the user touches the screen.
PublishAnswered == scr.pubs = << >>

\* A safeSetTimeout timer fires.
ScrTimeout ==
  \E t \in scr.timeouts :
    /\ t.left = 0
    /\ t.kind = "connect" => ScrMayCreate
    /\ ScrCommit(timeoutFired(Cur, t))

\* The fast-interval timer fires.
ScrFastTimer == scr.fastTimer = 0 /\ ScrCommit(fastTimerFired(Cur))

\* The patch timer fires.
ScrPatchTimer == scr.patchTimer = 0 /\ ScrCommit(patchTimerFired(Cur))

\* React renders the screen after a change of connectionStatus.
ScrRender ==
  /\ scr.rendered # scr.conn \/ scr.ref # scr.conn
  /\ ScrCommit(render(Cur))

\* Time passes up to the next instant something falls due; timers that are due
\* and a pending render go first.
ScrTick ==
  /\ ~TimerDue(Cur)
  /\ PublishAnswered
  /\ scr.rendered = scr.conn /\ scr.ref = scr.conn
  /\ \E d \in TimeLefts(Cur) :
       /\ d > 0
       /\ \A e \in TimeLefts(Cur) : e > 0 => d <= e
       /\ ScrCommit(elapse(Cur, d))

\* The user acts on the screen as last rendered: a render or a timer that is
\* due comes before the next touch is handled, and the 300 ms from the first
\* frame to the automatic connectNow are over before the first touch.
UserCanAct ==
  /\ scr.rendered = scr.conn
  /\ PublishAnswered
  /\ ~TimerDue(Cur)
  /\ ~\E t \in scr.timeouts : t.kind = "connect"

\* Menu: Connect (shown unless Connected, enabled unless busy).
ScrConnectNow ==
  /\ UserCanAct
  /\ scr.rendered \notin {"connecting", "disconnecting", "connected"}
  /\ ScrMayCreate
  /\ ScrCommit(connectNow(Cur, scr.rendered))

\* Menu: Disconnect (shown while Connected).
ScrDisconnectNow ==
  /\ UserCanAct
  /\ scr.rendered = "connected"
  /\ ScrCommit(disconnectNow(Cur, scr.rendered))

\* The screen loses focus (another screen is pushed on top of it).
ScrBlur == ScrCommit(blurCleanup(Cur))

\* MqttNative.disconnect settles.  Android's success path first emits an
\* untagged DISCONNECTED status.  A subscribe the client had outstanding has
\* failed by then, and iOS has rejected a pending connect (closeClient).
ScrNativeDisconnected ==
  \E c \in discP, emitted \in BOOLEAN :
    /\ emitted => platform = "android"
    /\ connP[c] # "subscribe"
    /\ platform = "ios" => connP[c] \notin PendingConnect
    /\ LET s1 == [Cur EXCEPT !.discP = @ \ {c}]
           s2 == IF emitted
                 THEN scrDeliverStatus(s1, routeEvent(s1, Null), "DISCONNECTED")
                 ELSE s1
       IN ScrCommit(scrResume(s2, c, "disc"))

\* MqttNative.connect resolves.
ScrNativeConnected ==
  \E c \in ClientIds :
    /\ connP[c] \in PendingConnect /\ nat[c] = "connecting"
    /\ LET s1 == connectThen(Cur, c) IN
       ScrCommit(IF s1.connP[c] = "resolved" THEN scrResume(s1, c, "ok") ELSE s1)

\* MqttNative.subscribe succeeds: the native module emits the SUBSCRIBED status
\* and resolves the promise back to back, and JavaScript handles the two in
\* that order.
ScrNativeSubscribed ==
  \E c \in ClientIds :
    /\ connP[c] = "subscribe" /\ nat[c] = "up"
    /\ LET s1 == scrDeliverStatus(Cur, routeEvent(Cur, EventTag(c)), "SUBSCRIBED")
       IN ScrCommit(scrResume(connectResolved(s1, c), c, "ok"))

\* MqttNative.connect / subscribe rejects: the .catch of MqttClient.connect
\* runs the client's error and status callbacks, then connectNow's catch.
ScrNativeRejected ==
  \E c \in ClientIds :
    /\ connP[c] \in PendingConnect \cup {"subscribe"}
    /\ LET s1 == connectRejected(Cur, c)
           s2 == scrDeliverStatus(scrDeliverError(s1, c), c, "DISCONNECTED")
       IN ScrCommit(scrResume(s2, c, "fail"))

\* The native module emits a status event: CONNECTING while it connects,
\* CONNECTED from its connect callback (before SUBSCRIBED, and again after an
\* automatic reconnect), and further SUBSCRIBED events of a subscribed client.
ScrStatusEvent ==
  \E c \in ClientIds, text \in {"CONNECTING", "CONNECTED", "SUBSCRIBED"} :
    /\ text = "CONNECTING" => nat[c] = "connecting"
    /\ text = "CONNECTED" => \/ nat[c] \in {"connecting", "down"}
                             \/ nat[c] = "up" /\ connP[c] = "subscribe"
    /\ text = "SUBSCRIBED" => nat[c] = "up" /\ connP[c] = "resolved"
    /\ ScrCommit(scrDeliverStatus([Cur EXCEPT !.nat[c] = IF @ = "down" THEN "up" ELSE @],
                               routeEvent(Cur, EventTag(c)), text))

\* The native module reports a lost connection (mqtt_disconnected).
ScrDisconnectedEvent ==
  \E c \in ClientIds, hasError \in BOOLEAN :
    /\ nat[c] = "up"
    /\ LET inst == routeEvent(Cur, EventTag(c))
           s1 == scrDeliverStatus([Cur EXCEPT !.nat[c] = "down"], inst, "DISCONNECTED")
       IN ScrCommit(IF hasError THEN scrDeliverError(s1, inst) ELSE s1)

\* The promise of a native publish settles; the native module answers its
\* calls in order.
ScrPublishSettled ==
  \E ok \in BOOLEAN :
    /\ scr.pubs # << >>
    /\ ok => Head(scr.pubs).fate = "open"
    /\ ~ok => Head(scr.pubs).fate = "fail" \/ platform = "android"
    /\ ScrCommit(publishSettled(Cur, ok))

ConnNext ==
  \/ ScrTimeout
  \/ ScrFastTimer
  \/ ScrRender
  \/ ScrTick
  \/ ScrConnectNow
  \/ ScrDisconnectNow
  \/ ScrBlur
  \/ ScrNativeDisconnected
  \/ ScrNativeConnected
  \/ ScrNativeSubscribed
  \/ ScrNativeRejected
  \/ ScrStatusEvent
  \/ ScrDisconnectedEvent
  \/ ScrPublishSettled

SpecConn == ScrInit /\ [][ConnNext]_vars


\* C7: when the first SUBSCRIBED status of a connection makes the session
\* Connected, the "fast interval" command is handed to the transport in that
\* same step; over one connection (one client) the immediate send happens at
\* most once, whatever number of SUBSCRIBED events arrive, and each later
\* connection sends its own.
C7_FastOncePerConnection ==
  [][/\ \A c \in ClientIds : scr.fastOnce'[c] <= 1
     /\ (~scr.didRequestCfg /\ scr.didRequestCfg' /\ scr.conn' = "connected" /\ scr.ref' = "connected")
          => \E c \in ClientIds : scr.fastOnce[c] = 0 /\ scr.fastOnce'[c] = 1]_vars

\* C7, witness: the first connection sent its command, and so did the second
\* connection, made after it.
C7_Witness ==
  /\ scr.fastOnce[1] = 1 /\ scr.fastOnce[2] = 1
  /\ scr.conn = "connected" /\ defaultClient = 2

\* C8: the fast-interval timer runs exactly while the session is Connected: it
\* is pending whenever the session is Connected, and gone once the session has
\* left Connected.
C8_TimerWhileConnected ==
  /\ scr.conn = "connected" => scr.fastTimer # NoTimer
  /\ scr.conn # "connected" => scr.fastTimer = NoTimer

\* C9: no command is handed to the transport's publish while the session is
\* not Connected (state, rendered value and ref all differ from Connected).
C9_NoPublishOutsideConnected == ~scr.pubOutside


\* ------------------------------------------------ C37
\* C37: the session of the device screen never stays Connecting forever, in
\* particular not after an unsolicited disconnect followed by the automatic
\* reconnect of the transport (CONNECTED without a new SUBSCRIBED): whenever
\* a session that had been opened and subscribed is Connecting with its
\* transport up, a connectNow call is in flight, whose end makes the session
\* Connected or Disconnected.
C37_ConnectingHasAttempt ==
  (/\ scr.conn = "connecting"
   /\ defaultClient # Null
   /\ connP[defaultClient] = "resolved" /\ nat[defaultClient] = "up")
    => \E f \in scr.frames : f.pc \in {"disc", "conn"}

\* ------------------------------------------------ C38
\* When the subscribe step of an open is rejected the screen reports
\* Disconnected.
C38_ReportsDisconnected ==
  [][\A c \in ClientIds :
       (connP[c] = "subscribe" /\ connP'[c] = "rejected" /\ c = defaultClient)
         => scr.conn' = "disconnected"]_vars

\* C38: when opening a session fails after the transport has connected (the
\* subscribe step is rejected), the session reports Disconnected and its
\* transport connection is closed: no live transport connection is left for
\* the session.
C38_FailedOpenClosesTransport ==
  [][\A c \in ClientIds :
       (connP[c] = "subscribe" /\ connP'[c] = "rejected" /\ c = defaultClient)
         => /\ scr.conn' = "disconnected"
            /\ nat'[c] # "up" \/ c \in discP']_vars

\* ===================== specification SpecToggle: power toggles and telemetry ===
\* Inbound messages of SpecToggle: a current reading (the second one carries
\* the negative OFF marker) or an ON / OFF echo, for either channel.
CurrentMsg(id, off) ==
  Message([ch |-> id,
           val |-> IF is3P(id) THEN Arr(<<50, IF off THEN -1 ELSE 50, 50>>)
                   ELSE Num(IF off THEN -1 ELSE 50)],
          NoPart, NoCmd)
EchoMsg(id, act) == Message(NoPart, NoPart, [kind |-> act, ch |-> id, val |-> << >>])
ToggleMessages ==
  { CurrentMsg(id, off) : id \in Channels, off \in BOOLEAN }
  \cup { EchoMsg(id, act) : id \in Channels, act \in {"ON", "OFF"} }

\* Touches on channels and inbound messages a run of the model contains.
MaxTouches == 2
MaxMessages == 3
touched(s) == [s EXCEPT !.scr.nTouches = @ + 1]
received(s) == [s EXCEPT !.scr.nMessages = @ + 1]

\* A message arrives on the subscription of a connected client.
ScrMessageFrom(msgs) ==
  \E c \in ClientIds, m \in msgs :
    /\ nat[c] = "up" /\ connP[c] = "resolved"
    /\ scr.nMessages < MaxMessages
    /\ ScrCommit(received(scrDeliverMessage(Cur, routeEvent(Cur, EventTag(c)), m)))

\* SpecToggle follows the channel of the tab that is shown: the grid shows the
\* single-phase channel, the three-phase tab the three-phase channel.
Shown(id) == IF is3P(id) THEN scr.activeTab = "three" ELSE scr.activeTab = "grid"

ScrToggleMessage ==
  ScrMessageFrom({ m \in ToggleMessages : \E id \in Channels :
                     Shown(id) /\ id \in {m.cur.ch, m.cmd.ch} })

\* The user taps the power button of the grid tile of the single-phase channel.
ScrGridTap ==
  \E id \in Channels :
    /\ UserCanAct /\ Shown(id) /\ ~is3P(id)
    /\ scr.nTouches < MaxTouches
    /\ gridCanTap(Cur, id)
    /\ ScrCommit(touched(gridTap(Cur, id)))

\* The user taps the power button of the three-phase channel.
ScrThreeTap ==
  \E id \in Channels :
    /\ UserCanAct /\ Shown(id) /\ is3P(id)
    /\ scr.nTouches < MaxTouches
    /\ threeCanTap(Cur, id)
    /\ ScrCommit(touched(threeTap(Cur, id)))

\* The user switches to the other tab before the first message.
ScrSwitchTab ==
  \E key \in {"grid", "three"} :
    /\ UserCanAct /\ key # scr.activeTab
    /\ scr.nMessages = 0
    /\ ScrCommit(switchTab(Cur, key))

\* SpecToggle follows the session for ToggleHorizon milliseconds after it has
\* become Connected (the fast-interval timer, started then, is the clock).
ToggleHorizon == 800
ScrTickToggle ==
  /\ ScrTick
  /\ scr.fastTimer' = NoTimer \/ scr.fastTimer' >= 58000 - ToggleHorizon

ToggleNext ==
  \/ ScrTimeout
  \/ ScrPatchTimer
  \/ ScrRender
  \/ ScrTickToggle
  \/ ScrNativeConnected
  \/ ScrNativeSubscribed
  \/ ScrPublishSettled
  \/ ScrToggleMessage
  \/ ScrGridTap
  \/ ScrThreeTap
  \/ ScrSwitchTab

SpecToggle == ScrInit /\ [][ToggleNext]_vars

\* A step of handleToggle(id, act): its publish timer is new.
Toggled(id) ==
  \E t \in scr.timeouts' \ scr.timeouts :
    t.kind = "togglePub" /\ t.ch = id /\ scr.tags'[id].status = t.act

\* C5: while the toggle lock of a channel is running, its status changes only
\* by another toggle or by a batch that carries an explicit status (a command
\* echo); a batch that carries only current telemetry, single-phase or
\* three-phase, leaves the status as it is.
C5_LockKeepsStatus ==
  [][\A id \in Channels :
       (scr.toggleLock[id] > 0 /\ scr.tags'[id].status # scr.tags[id].status)
         => \/ Toggled(id)
            \/ /\ scr.pendingPatch[id].has /\ ~scr.pendingPatch'[id].has
               /\ scr.pendingPatch[id].status = scr.tags'[id].status]_vars

\* C5, witness: under the lock of a toggle to ON, the reading of a channel has
\* been replaced by flushed telemetry with the OFF marker, the status kept.
C5_Witness ==
  \E id \in Channels :
    /\ scr.toggleLock[id] > 0 /\ scr.tags[id].status = "ON"
    /\ scr.tags[id].current[Len(scr.tags[id].current) - (IF is3P(id) THEN 1 ELSE 0)] = "0.00"
    /\ scr.pubs = << >> /\ ~scr.pendingPatch[id].has

\* C6: handleToggle puts the requested status into the store in the same step
\* and starts the toggle lock; when the publish of the command fails, the lock
\* is cleared and the status written back is the one the channel had before
\* the toggle.
C6_ToggleRevert ==
  [][/\ \A t \in scr.timeouts' \ scr.timeouts :
          t.kind = "togglePub" => scr.tags'[t.ch].status = t.act /\ scr.toggleLock'[t.ch] > 0
     /\ scr.reverted' # scr.reverted
          => /\ scr.reverted'.act = scr.reverted'.before
             /\ scr.toggleLock'[scr.reverted'.ch] = 0]_vars

\* ------------------------------------------------ C34
\* C34: every patch accepted by enqueueTagPatch is eventually applied by a
\* flush, also when switchTab or handleToggle has cancelled the flush timer
\* and no message arrives afterwards: while the queue holds a patch a flush
\* timer is pending (only a later enqueueTagPatch starts one).
C34_QueuedPatchHasTimer ==
  (\E id \in StoreIds : scr.pendingPatch[id].has) => scr.patchTimer # NoTimer

\* ------------------------------------------------ C39
\* C39: while the toggle lock of a channel is running, no flush changes the
\* channel's status away from the value the user's toggle has set, in
\* particular not through the ON / OFF echo of an earlier command that was
\* queued or arrives during the lock.
C39_FlushKeepsToggledStatus ==
  [][\A id \in Channels :
       (/\ scr.patchTimer = 0 /\ scr' = patchTimerFired(Cur).scr
        /\ scr.toggleLock[id] > 0)
         => scr.tags'[id].status = scr.tags[id].status]_vars

\* ================= specification SpecName: name writes and their confirmation ===
\* Names the user enters and names the device reports.
NameInputs == { <<"A", " ">>, <<"B">>, DefaultName(17) }
DeviceNames == { <<"A">>, <<"A", ReplacementChar>>, <<"B">>, DefaultName(17) }

\* Inbound messages of SpecName: a name-map reply, a Set Name echo, or both
\* in one message.
NameMapMsg(id, v) == Message(NoPart, [ch |-> id, val |-> v], NoCmd)
SetNameEcho(id, v) == Message(NoPart, NoPart, [kind |-> "SetName", ch |-> id, val |-> v])
NameMapWithEcho(id, v) ==
  Message(NoPart, [ch |-> id, val |-> v], [kind |-> "SetName", ch |-> id, val |-> v])
NameMessages ==
  UNION { {NameMapMsg(id, v), SetNameEcho(id, v), NameMapWithEcho(id, v)} :
          id \in Channels, v \in DeviceNames }

\* The screen has lost focus: in SpecName the session is never closed, so a
\* Connected session without fast-interval timer is one whose screen has blurred.
Blurred == scr.conn = "connected" /\ scr.fastTimer = NoTimer

\* SpecName follows the channel of the tab that is shown, up to MaxWrites name
\* writes and MaxNameMessages messages, which arrive once the publishes and
\* timers of the instant have run.
MaxWrites == 1
MaxNameMessages == 2
ScrNameMessage ==
  /\ PublishAnswered /\ ~TimerDue(Cur)
  /\ scr.nMessages < MaxNameMessages
  /\ ScrMessageFrom({ m \in NameMessages : \E id \in Channels :
                        Shown(id) /\ id \in {m.name.ch, m.cmd.ch} })

\* The user saves a name in the rename dialog.
ScrSetName ==
  \E ch \in Channels, v \in NameInputs :
    /\ UserCanAct /\ ~Blurred /\ Shown(ch)
    /\ scr.rendered = "connected"
    /\ scr.nTouches < MaxWrites
    /\ ScrCommit(touched(publishSetName(Cur, ch, v)))

\* The screen loses focus after a name write.
ScrNameBlur ==
  /\ UserCanAct /\ ~Blurred
  /\ scr.nTouches > 0
  /\ ScrCommit(blurCleanup(Cur))

\* SpecName follows the session for NameHorizon milliseconds after it has
\* become Connected.
NameHorizon == 8400
ScrTickName ==
  /\ ScrTick
  /\ scr.fastTimer' = NoTimer \/ scr.fastTimer' >= 58000 - NameHorizon

NameNext ==
  \/ ScrTimeout
  \/ ScrPatchTimer
  \/ ScrRender
  \/ ScrTickName
  \/ ScrNativeConnected
  \/ ScrNativeSubscribed
  \/ ScrPublishSettled
  \/ ScrNameMessage
  \/ ScrSetName
  \/ ScrNameBlur

SpecName == ScrInit /\ [][NameNext]_vars

\* The step is the delivery of message m to the screen's onMessage.
OnMessageStep(m) ==
  /\ scr.nMessages' = scr.nMessages + 1
  /\ scr' = received(scrOnMessage(Cur, m)).scr

Saved(ch) == Job("nameSaved", 0, ch, "none", "none", 0)

C4_NameTimeout ==
  [][\A ch \in Channels :
       /\ (/\ scr.conn = "connected" /\ scr.conn' = "connected"
           /\ scr.pendingName[ch].has /\ scr.pendingName'[ch].has
           /\ scr.sinceWrite[ch] > 0 /\ scr.sinceWrite'[ch] = 0)
            => \E t \in scr.timeouts' : t.kind = "nameTimeout" /\ t.ch = ch /\ t.left = 0
       /\ \A t \in scr.timeouts \ scr.timeouts' :
            (/\ t.kind = "nameTimeout" /\ t.ch = ch /\ t.left = 0
             /\ scr.pendingName[ch].has /\ scr.ref = "connected")
              => /\ ~scr.pendingName'[ch].has
                 /\ scr.nameLock'[ch] = 0
                 /\ scr.signal' = Job("nameTimeout", 0, ch, "none", "none", 0)
                 /\ \E i \in 1..Len(scr.pubs') :
                      scr.pubs'[i].job.kind = "nameBank" /\ scr.pubs'[i].job.ch = ch]_vars

\* ------------------------------------------------ C36
\* C36: a name write whose matching confirmation arrives before its 8.2 s
\* timeout timer fires never raises a timeout signal afterwards, also when the
\* confirmation arrives between the 8 s expiry of the pending entry and the
\* 8.2 s timer: a name-map reply that carries the pending value (a name that is
\* not a placeholder "Device <n>") while the timeout timer of the channel is
\* still running removes the pending entry, without which the timeout callback
\* raises nothing.
C36_ConfirmedBeforeTimer ==
  [][\A ch \in Channels, v \in DeviceNames :
       (/\ OnMessageStep(NameMapMsg(ch, v))
        /\ scr.pendingName[ch].has
        /\ sanitizeName(v) = trim(scr.pendingName[ch].value)
        /\ ~isDefaultName(sanitizeName(v))
        /\ \E t \in scr.timeouts : t.kind = "nameTimeout" /\ t.ch = ch)
         => /\ ~scr.pendingName'[ch].has
            /\ nameTimeoutFired(Cur', ch).scr.signal = scr.signal']_vars

\* The same for a confirmation that arrives before the pending entry expires.
C36_ConfirmedBeforeExpiry ==
  [][\A ch \in Channels, v \in DeviceNames :
       (/\ OnMessageStep(NameMapMsg(ch, v))
        /\ scr.pendingName[ch].has /\ scr.pendingName[ch].left >= 0
        /\ sanitizeName(v) = trim(scr.pendingName[ch].value)
        /\ ~isDefaultName(sanitizeName(v))
        /\ \E t \in scr.timeouts : t.kind = "nameTimeout" /\ t.ch = ch)
         => /\ ~scr.pendingName'[ch].has
            /\ nameTimeoutFired(Cur', ch).scr.signal = scr.signal']_vars
\* ================== specification SpecSlot: the default session of the module ===
\* Callers use only connectAndSubscribe and disconnectMqtt, in any order, while
\* the native module settles promises and emits events, tagged or not.
SlotMaxClients == 2
SlotPorts == {-1, 8883}

SlotInit == RegInit

\* The .catch of MqttClient.connect runs the client's own error and status
\* callbacks: recorded like a routed event.
catchDelivery(s, c) ==
  [kind |-> "catch", tag |-> c, inst |-> c,
   status |-> s.statusCbs[c], message |-> {}, error |-> s.errorCbs[c],
   flip |-> ~s.delivered.flip]

\* connectAndSubscribe(params), with a topic
SlotConnectAndSubscribe ==
  \E port \in SlotPorts, cbs \in RegCallbackChoices :
    /\ nClients < SlotMaxClients
    /\ Commit(connectAndSubscribe(Cur, port, TRUE, TRUE, cbs))

\* disconnectMqtt(), once a session has been opened
SlotDisconnectMqtt ==
  /\ nClients > 0
  /\ Commit(disconnectMqtt(Cur))

\* MqttNative.disconnect settles.
SlotNativeDisconnected ==
  \E c \in discP : Commit([Cur EXCEPT !.discP = @ \ {c}])

\* MqttNative.connect resolves.
SlotNativeConnected ==
  \E c \in ClientIds :
    /\ connP[c] \in PendingConnect /\ nat[c] = "connecting"
    /\ Commit(connectThen(Cur, c))

\* MqttNative.subscribe resolves.
SlotNativeSubscribed ==
  \E c \in ClientIds :
    /\ connP[c] = "subscribe" /\ nat[c] = "up"
    /\ Commit(connectResolved(Cur, c))

\* MqttNative.connect / subscribe rejects, for a live or a closed client.
SlotNativeRejected ==
  \E c \in ClientIds :
    /\ connP[c] \in PendingConnect \cup {"subscribe"}
    /\ Commit([connectRejected(Cur, c) EXCEPT !.delivered = catchDelivery(Cur, c)])

\* The native module emits an event, untagged or tagged with the clientId of a
\* client it has been asked to connect.
SlotEvent ==
  \E kind \in {"mqtt_status", "mqtt_disconnected", "mqtt_message"},
     tag \in {Null} \cup (1..SlotMaxClients), hasError \in BOOLEAN :
    /\ kind # "mqtt_disconnected" => ~hasError
    /\ tag # Null => tag <= nClients /\ nat[tag] # "none"
    /\ Commit([Cur EXCEPT !.delivered = Deliver(Cur, kind, tag, hasError)])

SlotNext ==
  \/ SlotConnectAndSubscribe
  \/ SlotDisconnectMqtt
  \/ SlotNativeDisconnected
  \/ SlotNativeConnected
  \/ SlotNativeSubscribed
  \/ SlotNativeRejected
  \/ SlotEvent

SpecSlot == SlotInit /\ [][SlotNext]_vars

\* C11: after every step at most one session is registered, and it is the
\* default one; every other session is closed (no live native connection, no
\* callbacks), and no callback of a session other than the default one is run
\* by an event or by the failure of its connect.
C11_OneSessionPerSlot ==
  [][/\ Len(instanceMap') <= 1
     /\ \A c \in ClientIds :
          c # defaultClient'
            => /\ c \notin Range(instanceMap')
               /\ nat'[c] \notin {"connecting", "up"}
               /\ statusCbs'[c] = {} /\ messageCbs'[c] = {} /\ errorCbs'[c] = {}
     /\ delivered' # delivered
          => \/ delivered'.inst = defaultClient'
             \/ delivered'.status \cup delivered'.message \cup delivered'.error = {}]_vars

\* C11, witness: a second session is the default one and has received an
\* event, and an event tagged for the closed first session was dropped.
C11_Witness ==
  /\ defaultClient = 2 /\ instanceMap = <<2>>
  /\ nat[1] = "closed" /\ nat[2] = "up"
  /\ delivered.kind = "mqtt_status" /\ delivered.tag = 1 /\ delivered.inst = Null

\* ============ specification SpecClose: closing the session of the device screen ===
\* The screen connects, the user may save a name, and the screen is removed
\* (beforeRemove) while Connected, at any moment: also between a native publish
\* call and the arrival of its answer in JavaScript.
Closed == scr.conn = "disconnecting" \/ (scr.conn = "disconnected" /\ nClients > 0)

\* navigation's beforeRemove listener: disconnectAndStop('beforeRemove').
ScrBeforeRemove ==
  /\ scr.conn = "connected" /\ scr.rendered = "connected"
  /\ ScrCommit(disconnectAndStop(Cur, FALSE))

\* The user saves a name while the screen is shown.
ScrCloseSetName == ~Closed /\ ScrSetName

CloseNext ==
  \/ ScrTimeout
  \/ ScrPatchTimer
  \/ ScrRender
  \/ ScrTickName
  \/ ScrNativeConnected
  \/ ScrNativeSubscribed
  \/ ScrNativeDisconnected
  \/ ScrPublishSettled
  \/ ScrCloseSetName
  \/ ScrBeforeRemove

SpecClose == ScrInit /\ [][CloseNext]_vars

\* C12 (device screen): the step that closes the session leaves no
\* safeSetTimeout timer and no fast-interval timer pending, and once the
\* session is closing or closed no such timer fires.
C12_NoTimerAfterClose ==
  [][/\ (~Closed /\ Closed') => scr.timeouts' = {} /\ scr.fastTimer' = NoTimer
     /\ Closed => /\ ~\E t \in scr.timeouts \ scr.timeouts' : t.left = 0
                  /\ ~(scr.fastTimer = 0 /\ scr.fastTimer' # 0)]_vars



\* ==================== specification SpecPend: closing during a connect ===
\* Sessions opened in SpecPend.
PendMaxClients == 3

PendInit == RegInit

\* The session has been closed: MqttClient.disconnect() took it out of the map.
ClosedClient(s, c) == c <= s.nClients /\ c \notin Range(s.instanceMap)

\* connectAndSubscribe(params), with a topic
PendConnectAndSubscribe ==
  \E port \in SlotPorts :
    /\ nClients < PendMaxClients
    /\ Commit(connectAndSubscribe(Cur, port, TRUE, TRUE, NoCallbacks))

\* disconnectMqtt()
PendDisconnectMqtt ==
  /\ defaultClient # Null
  /\ Commit(disconnectMqtt(Cur))

\* MqttNative.disconnect settles.  iOS: closeClient has rejected a connect that
\* was pending before disconnect resolves.  Android: disconnect resolves from
\* the listener of c.disconnect (or at once when that throws) and never touches
\* the promise of connect.  A subscribe the client had outstanding has failed
\* by then.
PendNativeDisconnected ==
  \E c \in discP :
    /\ connP[c] # "subscribe"
    /\ platform = "ios" => connP[c] \notin PendingConnect
    /\ Commit([Cur EXCEPT !.discP = @ \ {c}])

\* MqttNative.connect resolves.
PendNativeConnected ==
  \E c \in ClientIds :
    /\ connP[c] \in PendingConnect /\ nat[c] = "connecting"
    /\ Commit(connectThen(Cur, c))

\* MqttNative.subscribe resolves.
PendNativeSubscribed ==
  \E c \in ClientIds :
    /\ connP[c] = "subscribe" /\ nat[c] = "up"
    /\ Commit(connectResolved(Cur, c))

\* MqttNative.connect / subscribe rejects, for a live or a closed client.
PendNativeRejected ==
  \E c \in ClientIds :
    /\ connP[c] \in PendingConnect \cup {"subscribe"}
    /\ Commit(connectRejected(Cur, c))

PendNext ==
  \/ PendConnectAndSubscribe
  \/ PendDisconnectMqtt
  \/ PendNativeDisconnected
  \/ PendNativeConnected
  \/ PendNativeSubscribed
  \/ PendNativeRejected

SpecPend == PendInit /\ [][PendNext]_vars

\* C13: a connect that is outstanding when its session is closed is failed by
\* the close: it is never resolved once the session is closed, and when the
\* close has completed (the promise of disconnect has settled) the promise of
\* connect is no longer pending.
C13_CloseFailsConnect ==
  [][\A c \in ClientIds :
       /\ (ClosedClient(Cur, c) /\ connP'[c] = "resolved") => connP[c] = "resolved"
       /\ (c \in discP /\ c \notin discP')
            => connP'[c] \notin PendingConnect \cup {"subscribe"}]_vars

\* The same property on iOS alone, where closeClient rejects the pending connect.
C13_iOS ==
  [][platform = "ios" =>
       \A c \in ClientIds :
         /\ (ClosedClient(Cur, c) /\ connP'[c] = "resolved") => connP[c] = "resolved"
         /\ (c \in discP /\ c \notin discP')
              => connP'[c] \notin PendingConnect \cup {"subscribe"}]_vars



\* ------------------------------------------------ C14
\* C14, device screen: connState becomes CONNECTED only in a step in which the
\* subscription is acknowledged.
C14_Screen ==
  [][(scr.conn' = "connected" /\ scr.conn # "connected")
       => defaultClient' # Null /\ connP'[defaultClient'] = "resolved"]_vars

\* C14: for a session opened with a topic, neither the state of the device
\* screen nor the connected flag of MqttManager becomes Connected before the
\* subscription is acknowledged.
C14_ConnectedOnlyOnceSubscribed ==
  [][/\ (scr.conn' = "connected" /\ scr.conn # "connected")
          => defaultClient' # Null /\ connP'[defaultClient'] = "resolved"
     /\ (mgr.connected' /\ ~mgr.connected
         /\ mgr.currentDevice' # Null /\ DeviceHasTopic(mgr.currentDevice'))
          => \/ mgr.status' = "SUBSCRIBED"
             \/ defaultClient' # Null /\ connP'[defaultClient'] = "resolved"]_vars



\* ------------------------------------------------ C15
\* The step leaves the sessions and the two owners of a session as s has them.
StepIs(s) ==
  /\ mgr' = s.mgr /\ scr' = s.scr
  /\ nat' = s.nat /\ opened' = s.opened
  /\ defaultClient' = s.defaultClient /\ instanceMap' = s.instanceMap

\* MqttManager is Connecting, Connected or inside disconnectDevice.
MgrBusy ==
  \/ mgr.connecting
  \/ mgr.connected
  \/ \E f \in mgr.frames : f.pc = "ddisc"

\* C15: a connect request made while the session is Connecting, Connected or
\* Disconnecting starts nothing: connectDevice (MqttManager) and connectNow
\* (device screen) leave the sessions as they are, close none and open none.
C15_ConnectOnlyFromIdle ==
  [][/\ \A dev \in MgrDevices :
          (MgrBusy /\ StepIs(connectDevice(Cur, dev, FALSE, 0)))
            => /\ nat' = nat /\ opened' = opened
               /\ defaultClient' = defaultClient /\ mgr'.frames = mgr.frames
     /\ (/\ scr.conn \in {"connecting", "connected", "disconnecting"}
         /\ scr' # scr
         /\ StepIs(connectNow(Cur, scr.rendered)))
          => /\ nat' = nat /\ opened' = opened
             /\ defaultClient' = defaultClient /\ scr'.frames = scr.frames]_vars

\* C15 for the device screen alone.
C15_Screen ==
  [][(/\ scr.conn \in {"connecting", "connected", "disconnecting"}
      /\ scr' # scr
      /\ StepIs(connectNow(Cur, scr.rendered)))
       => /\ nat' = nat /\ opened' = opened
          /\ defaultClient' = defaultClient /\ scr'.frames = scr.frames]_vars



\* ------------------------------------------------ C31
\* disconnectDevice has completed and connectDevice has not been called since:
\* connectDevice stores a device in currentDevice before anything else.
C31_Disconnected ==
  /\ mgr.currentDevice = Null
  /\ ~\E f \in mgr.frames : f.pc = "ddisc"

\* After disconnectDevice the back-off state is discarded and no reconnect
\* timer is pending.
C31_BackoffDiscarded ==
  C31_Disconnected => mgr.retryCount = 0 /\ mgr.reconnectTimer = 0 /\ mgr.timers = 0

\* After disconnectDevice no reconnect timer is started.
C31_NoTimerStarted ==
  [][C31_Disconnected /\ C31_Disconnected' => mgr.timers' <= mgr.timers]_vars

\* C31: once disconnectDevice has completed, the manager stays not connected,
\* its back-off state is discarded, and no connect attempt or reconnect timer
\* is started until connectDevice is called again, also when disconnectDevice
\* was called while a connectDevice call or a reconnect of the timer was in
\* flight.
C31_StaysDisconnected ==
  [][C31_Disconnected /\ C31_Disconnected' =>
       /\ ~mgr.connected' /\ ~mgr.connecting'
       /\ mgr.retryCount' = 0 /\ mgr.reconnectTimer' = 0
       /\ mgr.timers' <= mgr.timers
       /\ opened'.flip = opened.flip]_vars
\* ------------------------------------------------ C32
\* The step is the rejection of the native connect / subscribe of client c.
C32_Rejected(c) ==
  /\ connP[c] \in PendingConnect \cup {"subscribe"}
  /\ connP'[c] # connP[c]
  /\ StepIs(mgrResume(mgrDeliverStatus(mgrDeliverError(connectRejected(Cur, c), c),
                                       c, "DISCONNECTED"), c, "fail"))

\* The attempt of connectDevice that waits for client c has been superseded:
\* a later connectDevice call has closed c and is itself in flight.
C32_Superseded(c) ==
  /\ c # defaultClient /\ mgr.currentDevice # Null
  /\ \E f \in mgr.frames : f.pc = "conn" /\ f.client = c
  /\ \E g \in mgr.frames : g.pc \in {"disc", "conn"} /\ g.client # c

\* C32: the failure of a connection attempt of MqttManager that a later
\* connectDevice call has superseded changes neither connected, connecting nor
\* status, and schedules no reconnect.
C32_StaleFailureIgnored ==
  [][\A c \in ClientIds :
       C32_Superseded(c) /\ C32_Rejected(c) =>
         /\ mgr.connected' = mgr.connected /\ mgr.connecting' = mgr.connecting
         /\ mgr.status' = mgr.status
         /\ mgr.timers' = mgr.timers /\ mgr.reconnectTimer' = mgr.reconnectTimer]_vars
\* ================== specification SpecLost: MqttManager, lost connections ===
\* Sessions opened in SpecLost.
LostMaxClients == 2

LostMayCreate ==
  nClients + Cardinality({ f \in mgr.frames : f.pc = "disc" }) < LostMaxClients

\* A screen calls connectDevice(device).
LostConnectDevice == LostMayCreate /\ MgrConnectDevice

\* The reconnect timer fires.
LostTimerFire == LostMayCreate /\ MgrTimerFire

LostNext ==
  \/ LostConnectDevice
  \/ MgrDisconnectDevice
  \/ LostTimerFire
  \/ MgrNativeDisconnected
  \/ MgrNativeConnected
  \/ MgrNativeSubscribed
  \/ MgrNativeRejected
  \/ MgrStatusEvent
  \/ MgrDisconnectedEvent

SpecLost == MgrInit /\ [][LostNext]_vars

\* What the mqtt_disconnected listener does with an event of native client c.
onNativeDisconnected(s, c, hasError) ==
  LET inst == routeEvent(s, EventTag(c))
      s1 == mgrDeliverStatus(s, inst, "DISCONNECTED")
  IN IF hasError THEN mgrDeliverError(s1, inst) ELSE s1

\* C16: a disconnection event of the transport that arrives while MqttManager
\* is connected, disconnectDevice not having been called since the last
\* connectDevice, leaves it not connected with a reconnect timer of 1 s
\* pending; once disconnectDevice has been called no reconnect timer is pending.
C16_UnsolicitedDisconnect ==
  [][/\ \A c \in ClientIds, hasError \in BOOLEAN :
          (/\ nat[c] = "up" /\ mgr.connected /\ mgr.currentDevice # Null
           /\ StepIs(onNativeDisconnected(Cur, c, hasError)))
            => /\ ~mgr'.connected /\ ~mgr'.connecting
               /\ mgr'.status = "DISCONNECTED"
               /\ mgr'.reconnectTimer = 1000
     /\ mgr'.currentDevice = Null => mgr'.reconnectTimer = 0]_vars

\* C16, witness: the session was connected and subscribed, no attempt has
\* failed, and a disconnection event has left a 1 s reconnect timer pending.
C16_Witness ==
  /\ defaultClient # Null /\ nat[defaultClient] = "up"
  /\ connP[defaultClient] = "resolved"
  /\ mgr.fails = 0 /\ ~mgr.error
  /\ mgr.status = "DISCONNECTED" /\ ~mgr.connected
  /\ mgr.reconnectTimer = 1000



\* ------------------------------------------------ C17
\* C17: at most one reconnect timer of MqttManager is pending, and it is the
\* one the handle reconnectTimer refers to.
C17_OneReconnectTimer ==
  /\ mgr.timers <= 1
  /\ mgr.timers = (IF mgr.reconnectTimer # 0 THEN 1 ELSE 0)

\* C17, witness: a connect failed; its error callback, its status callback and
\* the catch block of connectDevice each scheduled a reconnect, and one timer
\* is pending.
C17_Witness ==
  /\ mgr.fails > 0 /\ mgr.error /\ mgr.status = "DISCONNECTED"
  /\ mgr.timers = 1 /\ mgr.reconnectTimer = 1000



\* ------------------------------------------------ C18
\* C18: while the name write of channel ch is pending and has not expired, no
\* inbound message (name-map reply or Set Name echo) gives the channel a name
\* other than the pending value: the name the message queues for the channel,
\* if any, is the pending value.
C18_PendingNameKept ==
  [][\A ch \in Channels, m \in NameMessages :
       (/\ scr.pendingName[ch].has /\ scr.pendingName[ch].left >= 0
        /\ scr.pendingPatch[ch].tagName \in {NoName, scr.pendingName[ch].value}
        /\ OnMessageStep(m))
         => scr.pendingPatch'[ch].tagName \in {NoName, scr.pendingName[ch].value}]_vars

\* C18 for name-map replies alone.
C18_Replies ==
  [][\A ch \in Channels, id \in Channels, w \in DeviceNames :
       (/\ scr.pendingName[ch].has /\ scr.pendingName[ch].left >= 0
        /\ scr.pendingPatch[ch].tagName \in {NoName, scr.pendingName[ch].value}
        /\ OnMessageStep(NameMapMsg(id, w)))
         => scr.pendingPatch'[ch].tagName \in {NoName, scr.pendingName[ch].value}]_vars



\* ======================= specification SpecRating: the rating round trip ===
\* Ratings the dialog hands over, and rating entries the device sends
\* ([cur, sens], or an array that is too short).
RatingInputs == { <<10, 2>>, <<16, 3>> }
DeviceRatings == { <<10, 2>>, <<16, 3>>, <<10>> }

\* Inbound messages of SpecRating: a Set Rating echo or a rating-map reply.
SetRatingEcho(id, v) == Message(NoPart, NoPart, [kind |-> "SetRating", ch |-> id, val |-> v])
RatingMapMsg(id, v) ==
  [Message(NoPart, NoPart, NoCmd) EXCEPT !.rating = [ch |-> id, val |-> v]]
RatingMessages ==
  UNION { {SetRatingEcho(id, v), RatingMapMsg(id, v)} :
          id \in Channels, v \in DeviceRatings }

\* SpecRating follows the channel of the tab that is shown, up to MaxWrites
\* rating writes and MaxRatingMessages messages.
MaxRatingMessages == 2
ScrRatingMessage ==
  /\ PublishAnswered /\ ~TimerDue(Cur)
  /\ scr.nMessages < MaxRatingMessages
  /\ ScrMessageFrom({ m \in RatingMessages : \E id \in Channels :
                        Shown(id) /\ id \in {m.rating.ch, m.cmd.ch} })

\* The user saves a rating in the rating dialog.
ScrSetRating ==
  \E ch \in Channels, v \in RatingInputs :
    /\ UserCanAct /\ ~Blurred /\ Shown(ch)
    /\ scr.rendered = "connected"
    /\ scr.nTouches < MaxWrites
    /\ ScrCommit(touched(publishSetRating(Cur, ch, v[1], v[2])))

RatingNext ==
  \/ ScrTimeout
  \/ ScrPatchTimer
  \/ ScrRender
  \/ ScrTickName
  \/ ScrNativeConnected
  \/ ScrNativeSubscribed
  \/ ScrPublishSettled
  \/ ScrRatingMessage
  \/ ScrSetRating
  \/ ScrNameBlur

SpecRating == ScrInit /\ [][RatingNext]_vars

RatingSaved(ch) == Job("ratingSaved", 0, ch, "none", "none", 0)

\* C19, first and second part: publishSetRating records the pending rating with
\* an expiry of 8 s, and the echo {"Set Rating": {"C<ch>": [cur, sens]}} with
\* the written values, received before expiry, clears the pending entry and
\* raises the confirmation signal.
C19_EchoConfirms ==
  [][\A ch \in Channels :
       /\ \A v \in RatingInputs :
            (/\ scr.rendered = "connected"
             /\ scr'.nTouches = scr.nTouches + 1
             /\ scr' = touched(publishSetRating(Cur, ch, v[1], v[2])).scr)
              => scr'.pendingRating[ch] = [has |-> TRUE, value |-> v, left |-> 8000]
       /\ (/\ scr.pendingRating[ch].has /\ scr.pendingRating[ch].left >= 0
           /\ OnMessageStep(SetRatingEcho(ch, scr.pendingRating[ch].value)))
            => /\ ~scr'.pendingRating[ch].has
               /\ scr'.signal = RatingSaved(ch)]_vars

\* C19, third part: when 8.2 s have passed since publishSetRating(ch, ..) with
\* the session open and the entry still pending, the timeout callback of ch is
\* due; and when it runs, the entry is removed, the timeout signal is raised
\* and a rating read request is handed to the transport.
C19_Timeout ==
  [][\A ch \in Channels :
       /\ (/\ scr.conn = "connected" /\ scr'.conn = "connected"
           /\ scr.pendingRating[ch].has /\ scr'.pendingRating[ch].has
           /\ scr.sinceWrite[ch] > 0 /\ scr'.sinceWrite[ch] = 0)
            => \E t \in scr'.timeouts : t.kind = "ratingTimeout" /\ t.ch = ch /\ t.left = 0
       /\ \A t \in scr.timeouts \ scr'.timeouts :
            (/\ t.kind = "ratingTimeout" /\ t.ch = ch /\ t.left = 0
             /\ scr.pendingRating[ch].has /\ scr.ref = "connected")
              => /\ ~scr'.pendingRating[ch].has
                 /\ scr'.signal = Job("ratingTimeout", 0, ch, "none", "none", 0)
                 /\ \E i \in 1..Len(scr'.pubs) : scr'.pubs[i].job.kind = "rating"]_vars

\* C19 for the rating-map reply: a reply with the written values, received
\* before expiry, clears the pending entry and raises the confirmation signal.
C19_ReplyConfirms ==
  [][\A ch \in Channels :
       (/\ scr.pendingRating[ch].has /\ scr.pendingRating[ch].left >= 0
        /\ OnMessageStep(RatingMapMsg(ch, scr.pendingRating[ch].value)))
         => /\ ~scr'.pendingRating[ch].has
            /\ scr'.signal = RatingSaved(ch)]_vars


\* C19: publishSetRating records the pending rating with an expiry of 8 s; the
\* matching Set Rating echo received before expiry clears it and raises the
\* confirmation signal; and without confirmation the timeout, 8.2 s after the
\* write, clears it, raises the timeout signal and issues a rating read request.
C19_RatingRoundTrip == C19_EchoConfirms /\ C19_Timeout



\* ===================== specification SpecReset: resetting the channels ===
\* refreshNow(), after its await of AsyncStorage.removeItem; closure is the
\* connectionStatus of the render that made the callback.
refreshNow(s, closure) ==
  LET s1 == toast(clearTagsToUnknown(s), "refreshing", 0) IN
  IF closure = "connected"
  THEN [requestRatingMap(requestNameMap(s1)) EXCEPT !.scr.didRequestCfg = TRUE]
  ELSE s1

\* Menu: Refresh (enabled while Connected).
ScrRefreshNow ==
  /\ UserCanAct
  /\ scr.rendered = "connected"
  /\ scr.nTouches < MaxTouches
  /\ ScrCommit(touched(refreshNow(Cur, scr.rendered)))

ResetNext ==
  \/ ScrTimeout
  \/ ScrPatchTimer
  \/ ScrRender
  \/ ScrTickToggle
  \/ ScrNativeConnected
  \/ ScrNativeSubscribed
  \/ ScrNativeDisconnected
  \/ ScrPublishSettled
  \/ ScrToggleMessage
  \/ ScrDisconnectNow
  \/ ScrDisconnectedEvent
  \/ ScrRefreshNow

SpecReset == ScrInit /\ [][ResetNext]_vars

\* Every channel of the store is unknown and unseen.
AllUnknown(s) ==
  \A id \in Channels :
    /\ s.scr.tags[id].status = "UNKNOWN"
    /\ ~s.scr.tags[id].seen
    /\ s.scr.tags[id].current = defaultTag(id).current

\* C20: after a step in which the session becomes Disconnected, by an explicit
\* disconnect or by a disconnect event of the transport, and after a refresh
\* request, every channel has status UNKNOWN, readings '-' and seen = false.
C20_ResetOnDisconnect ==
  [][/\ (scr.conn # "disconnected" /\ scr'.conn = "disconnected")
          => \A id \in Channels :
               /\ scr'.tags[id].status = "UNKNOWN"
               /\ ~scr'.tags[id].seen
               /\ scr'.tags[id].current = defaultTag(id).current
     /\ (/\ scr'.nTouches = scr.nTouches + 1
         /\ scr' = touched(refreshNow(Cur, scr.rendered)).scr)
          => \A id \in Channels :
               /\ scr'.tags[id].status = "UNKNOWN"
               /\ ~scr'.tags[id].seen
               /\ scr'.tags[id].current = defaultTag(id).current]_vars

\* C20 for the explicit disconnect and the refresh: when disconnectNow ends, and
\* after refreshNow, every channel is unknown and unseen.
C20_Explicit ==
  [][/\ (scr.conn = "disconnecting" /\ scr'.conn = "disconnected") => AllUnknown([scr |-> scr'])
     /\ (/\ scr'.nTouches = scr.nTouches + 1
         /\ scr' = touched(refreshNow(Cur, scr.rendered)).scr) => AllUnknown([scr |-> scr'])]_vars

\* ------------------------------------------------ C33
\* The step resets the channel store: refreshNow, or the end of disconnectNow.
C33_Reset ==
  \/ /\ scr'.nTouches = scr.nTouches + 1
     /\ scr' = touched(refreshNow(Cur, scr.rendered)).scr
  \/ scr.conn = "disconnecting" /\ scr'.conn = "disconnected"

\* C33: after the channel store has been reset, no patch queued from a message
\* received before the reset is applied: the flush of the queue as the reset
\* leaves it keeps every channel unknown and unseen.
C33_QueueDroppedAtReset ==
  [][C33_Reset => AllUnknown(patchTimerFired(Cur'))]_vars
\* ============ specification SpecTls: the security mode of every open ========
\* The devices sessions are opened for (see DevicePort and DevicePref), and
\* those the device screen can show (connectNow needs cpid and deviceId).
TlsDevices == 1..6
TlsScrDevices == TlsDevices \ {2}
TlsMaxClients == 2

TlsInit ==
  /\ ClientLayerInit
  /\ platform \in {"ios", "android"}
  /\ auth = AuthIdle /\ mgr = MgrIdle /\ scr = ScrIdle

\* One caller is at work at a time: the device screen, the AddMqttDevice
\* screen (authenticateForAddDevice) or a screen that uses connectDevice.
TlsScrTurn == auth = AuthIdle /\ mgr = MgrIdle /\ (scr = ScrIdle => nClients = 0)
TlsMgrTurn == auth = AuthIdle /\ scr = ScrIdle
TlsAuthTurn == mgr = MgrIdle /\ scr = ScrIdle /\ (auth.pc = "idle" => nClients = 0)

\* navigation.navigate('MqttDeviceGrid', {device}): the screen mounts for a
\* saved device.
TlsOpenScreen ==
  /\ TlsScrTurn /\ scr = ScrIdle
  /\ \E d \in TlsScrDevices :
       Commit([Cur EXCEPT !.scr.port = DevicePort(d), !.scr.useTls = DevicePref(d)])

TlsMayCreate ==
  nClients + Cardinality({ f \in mgr.frames : f.pc = "disc" }) < TlsMaxClients

\* A screen calls connectDevice(device).
TlsConnectDevice ==
  /\ TlsMayCreate
  /\ \E dev \in TlsDevices : Commit(connectDevice(Cur, dev, FALSE, 0))

\* The reconnect timer fires.
TlsTimerFire == TlsMayCreate /\ MgrTimerFire

TlsMgrNext ==
  \/ TlsConnectDevice
  \/ MgrDisconnectDevice
  \/ TlsTimerFire
  \/ MgrNativeDisconnected
  \/ MgrNativeConnected
  \/ MgrNativeSubscribed
  \/ MgrNativeRejected
  \/ MgrDisconnectedEvent

TlsNext ==
  \/ TlsOpenScreen
  \/ TlsScrTurn /\ ConnNext
  \/ TlsMgrTurn /\ TlsMgrNext
  \/ TlsAuthTurn /\ AuthNext

SpecTls == TlsInit /\ [][TlsNext]_vars

\* The mode the caller asks for: its boolean preference, else by the port.
C21_Requested(pref, port) ==
  IF pref = "unset" THEN port \in {8883, 8812} ELSE pref = "yes"

\* A step in which MqttClient.connect hands an open to the native module.
C21_Opens == opened'.flip # opened.flip

\* C21, connectDevice: the mode passed down is device.useTls when it is a
\* boolean, else TLS exactly for ports 8883 and 8812.
C21_Manager ==
  [][C21_Opens /\ "mgr" \in statusCbs'[opened'.client] =>
       \E f \in mgr'.frames :
         /\ f.pc = "conn" /\ f.client = opened'.client
         /\ opened'.port = DevicePort(f.dev)
         /\ opened'.flag = C21_Requested(DevicePref(f.dev), DevicePort(f.dev))]_vars

\* C21, authenticateForAddDevice: the same for the first attempt.
C21_Auth ==
  [][C21_Opens /\ "auth" \in statusCbs'[opened'.client] /\ Len(auth'.flags) = 1 =>
       /\ opened'.port = auth'.p
       /\ opened'.flag = C21_Requested(auth'.input, auth'.p)]_vars

\* C21, connectNow of the device screen.
C21_Screen ==
  [][C21_Opens /\ "scr" \in statusCbs'[opened'.client] =>
       /\ opened'.port = scr'.port
       /\ opened'.flag = C21_Requested(scr'.useTls, scr'.port)]_vars

\* C21: on every session open for a device (connectDevice, the first attempt
\* of authenticateForAddDevice, connectNow of the device screen) the security
\* mode asked of the transport is the caller's boolean preference when there
\* is one, and otherwise TLS exactly for the ports 8883 and 8812.
C21_ModeFromPreference ==
  [][C21_Opens =>
       LET c == opened'.client IN
       /\ "mgr" \in statusCbs'[c] =>
            \E f \in mgr'.frames :
              /\ f.pc = "conn" /\ f.client = c
              /\ opened'.flag = C21_Requested(DevicePref(f.dev), DevicePort(f.dev))
       /\ ("auth" \in statusCbs'[c] /\ Len(auth'.flags) = 1) =>
            opened'.flag = C21_Requested(auth'.input, auth'.p)
       /\ "scr" \in statusCbs'[c] =>
            opened'.flag = C21_Requested(scr'.useTls, scr'.port)]_vars

\* C22: no open is handed to the native module with TLS enabled for port 1883,
\* whatever flag the caller passed and whichever path made the open (first
\* attempt, auto-flip retry, reconnect timer, the device screen).
C22_NoTlsOn1883 == opened.client # Null /\ opened.port = 1883 => ~opened.tls

\* C22, witness: the reconnect timer of connectDevice reopened the session of
\* a device saved with port 1883 and useTls = true, and the open went out plain.
C22_Witness ==
  /\ opened.client # Null /\ opened.port = 1883 /\ opened.flag /\ ~opened.tls
  /\ \E f \in mgr.frames : f.client = opened.client /\ f.pc = "conn" /\ f.silent

\* ================ specification SpecAdd: AddMqttDevice saves a device ======
AddPorts == {0, -1, 1883, 1884, 8883, 8812}

\* The user presses Add; a second press is possible after a failure.
AddOnAdd ==
  /\ ~auth.busy /\ ~auth.saved.has
  /\ nClients + 2 <= MaxClients
  /\ \E port \in AddPorts : Commit(onAdd(Cur, port))

\* authenticateForAddDevice has returned or thrown: onAdd goes on.
AddResume ==
  /\ auth.busy /\ auth.pc = "done"
  /\ Commit(onAddResume(Cur))

AddNext ==
  \/ AddOnAdd
  \/ AddResume
  \/ AuthNativeDisconnected
  \/ AuthNativeConnected
  \/ AuthNativeSubscribed
  \/ AuthNativeRejected
  \/ AuthTimeout

SpecAdd == AuthInit /\ [][AddNext]_vars

C24_Flush == scr.patchTimer = 0 /\ scr' = patchTimerFired(Cur).scr /\ scr' # scr

DecodeValues == { Num(50), Arr(<<50, -1, 50>>), Legs(<<50, 50, 50>>), Arr(<<50>>) }

\* The names a name-map entry or the name cache carries in SpecDecode: a
\* real name, one that is empty once sanitized, and two placeholders.
DecodeNames ==
  { <<"A">>, <<ReplacementChar>>, DefaultName(17), <<"d", "e", "v", "i", "c", "e", " ", "5">> }

\* What loadNameCache finds in AsyncStorage: nothing, or one entry.
DecodeCaches ==
  {NoPart, [ch |-> OtherId, val |-> <<"A">>]}
  \cup { [ch |-> 17, val |-> v] : v \in DecodeNames }

CurrentEntryMsg(id, v) == Message([ch |-> id, val |-> v], NoPart, NoCmd)

\* Inbound messages of SpecDecode: a current-map entry or a name-map entry for
\* any id, and an ON echo, a Set Name echo, a Set Rating echo or a rating-map
\* entry for the id outside the channel ranges.
DecodeMessages ==
  { CurrentEntryMsg(id, v) : id \in StoreIds, v \in DecodeValues }
  \cup { NameMapMsg(id, v) : id \in {17, OtherId}, v \in DecodeNames }
  \cup { EchoMsg(OtherId, "ON"), SetNameEcho(OtherId, <<"A">>),
         SetRatingEcho(OtherId, <<10, 2>>), RatingMapMsg(OtherId, <<10, 2>>) }

DecodeInit ==
  /\ ClientLayerInit
  /\ platform \in {"ios", "android"}
  /\ auth = AuthIdle /\ mgr = MgrIdle
  /\ scr \in { [ScrIdle EXCEPT !.cacheObj = o] : o \in DecodeCaches }

\* AsyncStorage.getItem of loadNameCache resolves.
ScrNameCacheLoaded ==
  /\ scr.cacheLoad = "pending"
  /\ ScrCommit(nameCacheLoaded(Cur))

\* SpecDecode follows a connected session over MaxDecodeMessages messages.
MaxDecodeMessages == 2
ScrDecodeMessage ==
  /\ PublishAnswered /\ ~TimerDue(Cur)
  /\ scr.nMessages < MaxDecodeMessages
  /\ ScrMessageFrom(DecodeMessages)

DecodeNext ==
  \/ ScrTimeout
  \/ ScrPatchTimer
  \/ ScrRender
  \/ ScrTickToggle
  \/ ScrNativeConnected
  \/ ScrNativeSubscribed
  \/ ScrPublishSettled
  \/ ScrDecodeMessage
  \/ ScrNameCacheLoaded

SpecDecode == DecodeInit /\ [][DecodeNext]_vars

\* C25: a current-map entry in tuple form (an array, or an object with the
\* per-leg keys) yields a patch only for a three-phase id (201..224), and an
\* entry in scalar form only for a single-phase id (1..120); an entry of the
\* other form yields no patch for its channel.
C25_FormMatchesPhase ==
  [][\A id \in StoreIds, v \in DecodeValues :
       (OnMessageStep(CurrentEntryMsg(id, v)) /\ ~scr.pendingPatch[id].has
          /\ scr.pendingPatch'[id].has)
         => IF v.form = "num" THEN id >= 1 /\ id <= 120
            ELSE id >= 201 /\ id <= 224]_vars

\* C25 for the object form alone: it yields a patch only for three-phase ids.
C25_LegsOnlyThreePhase ==
  [][\A id \in StoreIds, v \in DecodeValues :
       (OnMessageStep(CurrentEntryMsg(id, v)) /\ ~scr.pendingPatch[id].has
          /\ scr.pendingPatch'[id].has /\ v.form = "obj")
         => id >= 201 /\ id <= 224]_vars

\* The names of SpecDecode that must not be applied: the one that is empty
\* once sanitized, and the two of the form "Device <n>".
C26_Skipped(v) ==
  v \in { <<ReplacementChar>>, DefaultName(17), <<"d", "e", "v", "i", "c", "e", " ", "5">> }

\* The step in which the name cache read at focus is merged into the store.
C26_CacheStep == scr.cacheLoad = "pending" /\ scr' = nameCacheLoaded(Cur).scr

\* C26: a name from an inbound name map or from the reloaded name cache that
\* is empty after sanitization or has the placeholder form "Device <n>" is not
\* applied: the message leaves the patch queue, the store and the locks as
\* they were, and the cache load leaves the store as it was, so a stored name
\* is kept.
C26_NoDowngrade ==
  [][/\ \A id \in StoreIds, v \in DecodeNames :
          (C26_Skipped(v) /\ OnMessageStep(NameMapMsg(id, v)))
            => scr' = received(Cur).scr
     /\ (C26_CacheStep /\ C26_Skipped(scr.cacheObj.val)) => scr'.tags = scr.tags]_vars

\* C26, witness: the cache held a placeholder name for channel 17; it has been
\* loaded after a name-map reply had stored the name "A", which is still there.
C26_Witness ==
  /\ scr.cacheLoad = "done"
  /\ scr.cacheObj.ch = 17 /\ scr.cacheObj.val = DefaultName(17)
  /\ scr.tags[17].tagName = <<"A">>

\* An id of a channel: single-phase 1..120 or three-phase 201..224.
C27_ChannelId(id) == (id >= 1 /\ id <= 120) \/ (id >= 201 /\ id <= 224)

\* C27: the store holds channels with ids in 1..120 or 201..224 only: an
\* inbound current, name, rating or command-echo entry for another id makes
\* no channel and changes no state (no patch entry, no lock).  (Stated for the
\* ids the name cache read at focus has no entry for.)
C27_OnlyChannelIds ==
  \A id \in StoreIds :
    (~C27_ChannelId(id) /\ scr.cacheObj.ch # id) =>
      /\ scr.tags[id] = defaultTag(id)
      /\ ~scr.pendingPatch[id].has
      /\ scr.nameLock[id] = 0

\* C27 for current-map entries alone.
C27_CurrentEntries ==
  [][\A id \in StoreIds, v \in DecodeValues :
       (~C27_ChannelId(id) /\ OnMessageStep(CurrentEntryMsg(id, v)))
         => scr' = received(Cur).scr]_vars

\* C28: patch idempotence.  When a current-map patch has been enqueued, the
\* same patch enqueued once more in the same flush window leaves the patch
\* queue and its timer as they are, and the flush then yields the same store.
C28_PatchIdempotent ==
  [][\A id \in StoreIds, v \in DecodeValues :
       OnMessageStep(CurrentEntryMsg(id, v)) =>
         LET twice == scrOnMessage(Cur', CurrentEntryMsg(id, v)) IN
         /\ twice.scr.pendingPatch = scr'.pendingPatch
         /\ twice.scr.patchTimer = scr'.patchTimer
         /\ patchTimerFired(twice).scr.tags = patchTimerFired(Cur').scr.tags]_vars

\* C28, witness: the same reading of channel 17 came twice in one window, and
\* the flush has put it into the store.
C28_Witness ==
  /\ scr.nMessages = 2 /\ scr.cacheLoad = "pending"
  /\ scr.fastTimer = 58000 - 120
  /\ scr.tags[17].current = <<"5.00">> /\ scr.tags[17].status = "ON"
  /\ \A id \in StoreIds \ {17} : scr.tags[id] = defaultTag(id)

\* The value of a field after a patch has been merged over it: the patch's
\* value when the patch sets the field, the earlier value otherwise.
C29_Latest(setByPatch, patchValue, earlier) ==
  IF setByPatch THEN patchValue ELSE earlier

\* C29: patches for the same channel queued before a flush are merged field by
\* field, the last write winning: when a message enqueues a patch, every field
\* the patch sets takes the patch's value in the queue and every other field
\* keeps the value an earlier patch gave it; the flush then writes each field
\* the queue holds into the channel (the reading formatted).
C29_LastWriteWins ==
  [][/\ \A m \in DecodeMessages :
          OnMessageStep(m) =>
            LET patch == decodeMessage(Cur, m).patch IN
            \A id \in StoreIds :
              LET old == scr.pendingPatch[id]
                  new == scr.pendingPatch'[id]
              IN IF id \in DOMAIN patch
                 THEN /\ new.has
                      /\ new.cur = C29_Latest(patch[id].cur # << >>, patch[id].cur, old.cur)
                      /\ new.status = C29_Latest(patch[id].status # "none", patch[id].status, old.status)
                      /\ new.tagName = C29_Latest(patch[id].tagName # NoName, patch[id].tagName, old.tagName)
                 ELSE new = old
     /\ C24_Flush =>
          \A id \in StoreIds :
            LET p == scr.pendingPatch[id] IN
            p.has =>
              /\ scr.tags'[id].tagName = C29_Latest(p.tagName # NoName, p.tagName, scr.tags[id].tagName)
              /\ p.status # "none" => scr.tags'[id].status = p.status
              /\ Len(p.cur) = 1 => scr.tags'[id].current = <<formatCurrentA(p.cur[1])>>
              /\ Len(p.cur) = 3 => scr.tags'[id].current[3] = formatCurrentA(p.cur[2])
              /\ p.cur = << >> => scr.tags'[id].current = scr.tags[id].current]_vars

\* C29, witness: in one flush window a name-map entry and a reading for
\* channel 17 were queued; the flush has written both fields.
C29_Witness ==
  /\ scr.nMessages = 2 /\ scr.cacheLoad = "pending"
  /\ scr.fastTimer = 58000 - 120
  /\ scr.tags[17].tagName = <<"A">> /\ scr.tags[17].current = <<"5.00">>

\* The step is publishSetName(ch, v) called by the rename dialog.
C30_NameWrite(ch, v) ==
  /\ scr.nTouches' = scr.nTouches + 1
  /\ scr' = touched(publishSetName(Cur, ch, v)).scr

\* The step settles the native publish of the oldest suspended call.
C30_Settles ==
  /\ scr.pubs # << >>
  /\ ~(/\ Len(scr.pubs') >= Len(scr.pubs)
       /\ SubSeq(scr.pubs', 1, Len(scr.pubs)) = scr.pubs)

\* The publish handed to the native module last.
C30_Sent == scr.pubs'[Len(scr.pubs')]

\* A name write issued while Connected records the pending operation and hands
\* over one publish: the object-keyed Set Name for the channel and the trimmed
\* name, at QoS 0.
C30_ObjectFirst ==
  [][\A ch \in Channels, v \in NameInputs :
       C30_NameWrite(ch, v) /\ scr.conn = "connected" =>
         /\ scr.pendingName'[ch] = [has |-> TRUE, value |-> trim(v), left |-> 8000]
         /\ Len(scr.pubs') = Len(scr.pubs) + 1
         /\ C30_Sent.job.kind = "setName" /\ writeSchema(C30_Sent.job) = "object"
         /\ C30_Sent.job.ch = ch /\ C30_Sent.job.val = trim(v)
         /\ C30_Sent.qos = 0]_vars

\* A second publish of a write is the array-keyed form of the same command for
\* the same channel and value at QoS 0, handed over as the first one settles;
\* nothing is published for the write after the second.
C30_ArraySecond ==
  [][\A i \in 1..Len(scr.pubs') :
       LET p == scr.pubs'[i] IN
       /\ p.job.kind \in {"setName", "setRating"} /\ p.job.step = 2
       /\ (i > Len(scr.pubs) \/ scr.pubs[i] # p)
       => /\ C30_Settles /\ i = Len(scr.pubs')
          /\ Head(scr.pubs).job = [p.job EXCEPT !.step = 1]
          /\ writeSchema(p.job) = "array" /\ p.qos = 0
          /\ Len(scr.pubs') = Len(scr.pubs)]_vars

\* C30: each name write issued while Connected produces exactly two publishes
\* at QoS 0, first the object-keyed form and then the array-keyed form of the
\* same Set Name command for the same channel and value, and the pending
\* operation is recorded before the first of them is sent: the write hands over
\* the object-keyed publish with the pending operation recorded, the
\* array-keyed publish follows when the first one settles, and no publish
\* follows the second.
C30_TwoPublishes ==
  [][/\ \A ch \in Channels, v \in NameInputs :
          C30_NameWrite(ch, v) /\ scr.conn = "connected" =>
            /\ scr.pendingName'[ch].has
            /\ Len(scr.pubs') = Len(scr.pubs) + 1
            /\ C30_Sent.job.kind = "setName" /\ C30_Sent.job.step = 1
            /\ C30_Sent.job.ch = ch /\ C30_Sent.job.val = trim(v) /\ C30_Sent.qos = 0
     /\ C30_Settles /\ Head(scr.pubs).job.kind = "setName" =>
          IF Head(scr.pubs).job.step = 1
          THEN /\ Len(scr.pubs') = Len(scr.pubs)
               /\ C30_Sent.job = [Head(scr.pubs).job EXCEPT !.step = 2]
               /\ C30_Sent.qos = 0
          ELSE scr.pubs' = Tail(scr.pubs)]_vars

\* Where the native module resolves every publish of a connected client (iOS),
\* the array-keyed publish follows the object-keyed one and nothing follows
\* the array-keyed one.
C30_BothWhenResolved ==
  [][platform = "ios" /\ C30_Settles /\ Head(scr.pubs).job.kind \in {"setName", "setRating"} =>
       IF Head(scr.pubs).job.step = 1
       THEN /\ Len(scr.pubs') = Len(scr.pubs)
            /\ C30_Sent.job = [Head(scr.pubs).job EXCEPT !.step = 2]
            /\ C30_Sent.qos = 0
       ELSE scr.pubs' = Tail(scr.pubs)]_vars

\* ============ specification SpecRewrite: a name written again before its timeout ===
\* SpecRewrite is SpecName with up to MaxRewrites name writes.
MaxRewrites == 2
ScrSetNameAgain ==
  \E ch \in Channels, v \in NameInputs :
    /\ UserCanAct /\ ~Blurred /\ Shown(ch)
    /\ scr.rendered = "connected"
    /\ scr.nTouches < MaxRewrites
    /\ ScrCommit(touched(publishSetName(Cur, ch, v)))

RewriteNext ==
  \/ ScrTimeout
  \/ ScrPatchTimer
  \/ ScrRender
  \/ ScrTickName
  \/ ScrNativeConnected
  \/ ScrNativeSubscribed
  \/ ScrPublishSettled
  \/ ScrNameMessage
  \/ ScrSetNameAgain
  \/ ScrNameBlur

SpecRewrite == ScrInit /\ [][RewriteNext]_vars

\* C35: when two name writes are issued for the same channel less than 8.2 s
\* apart, the timeout timer of the first write neither removes the pending
\* operation of the second, nor clears its name lock, nor raises a timeout for
\* it: a timeout callback that runs less than 8.2 s after the latest write of
\* its channel leaves the pending operation, the lock and the signal alone.
C35_TimeoutOfItsOwnWrite ==
  [][\A ch \in Channels :
       \A t \in scr.timeouts \ scr.timeouts' :
         (/\ t.kind = "nameTimeout" /\ t.ch = ch /\ t.left = 0
          /\ scr.sinceWrite[ch] > 0)
           => /\ scr.pendingName'[ch] = scr.pendingName[ch]
              /\ scr.nameLock'[ch] = scr.nameLock[ch]
              /\ scr.signal' = scr.signal]_vars

\* ============ specification SpecOffline: a toggle while the connection is lost ===
\* SpecOffline is the single-phase part of SpecToggle with the transport
\* losing its connection at any moment.
OfflineNext ==
  \/ ScrTimeout
  \/ ScrPatchTimer
  \/ ScrRender
  \/ ScrTickToggle
  \/ ScrNativeConnected
  \/ ScrNativeSubscribed
  \/ ScrPublishSettled
  \/ ScrToggleMessage
  \/ ScrGridTap
  \/ ScrDisconnectedEvent

SpecOffline == ScrInit /\ [][OfflineNext]_vars

\* C40: every optimistic toggle applied by handleToggle is eventually either
\* handed to the transport's publish or reverted: when the deferred publish of
\* a toggle runs, the command is handed over, or (the session having left
\* Connected) the toggle lock is cleared and the opposite status queued.
C40_PublishedOrReverted ==
  [][\A t \in scr.timeouts \ scr.timeouts' :
       (t.kind = "togglePub" /\ t.left = 0 /\ scr.toggleLock[t.ch] > 0)
         => \/ \E i \in 1..Len(scr.pubs') :
                 /\ scr.pubs'[i].job.kind = "control"
                 /\ scr.pubs'[i].job.ch = t.ch /\ scr.pubs'[i].job.act = t.act
            \/ /\ scr.toggleLock'[t.ch] = 0
               /\ scr.pendingPatch'[t.ch].status = (IF t.act = "ON" THEN "OFF" ELSE "ON")]_vars

\* While the session is Connected the deferred publish hands the command over.
C40_PublishedWhenConnected ==
  [][\A t \in scr.timeouts \ scr.timeouts' :
       (t.kind = "togglePub" /\ t.left = 0 /\ scr.ref = "connected" /\ defaultClient # Null)
         => \E i \in 1..Len(scr.pubs') :
              /\ scr.pubs'[i].job.kind = "control"
              /\ scr.pubs'[i].job.ch = t.ch /\ scr.pubs'[i].job.act = t.act]_vars

====
